---- MODULE Spec2Model ----
(***************************************************************************)
(* Genesis governance engine: the audit ledger (EventLog), the epoch       *)
(* ledger and the fail-closed mutation protocol of GenesisService.         *)
(*                                                                         *)
(* Conventions of the model                                                *)
(*  - SHA-256 is modelled as an injective tagging: the hash of a value is  *)
(*    the tuple of the fields that were hashed.                            *)
(*  - datetime.now() is a logical clock; 0 stands for None.                *)
(*  - trust scores are in tenths (1 is 0.10, 6 is 0.60).                   *)
(*  - event ids "EVT-%08d" are modelled by the counter value they format.  *)
(*  - the service is wired with a file-backed EventLog and a StateStore;   *)
(*    the durable file write and the snapshot write may raise OSError.     *)
(***************************************************************************)
EXTENDS Integers, Sequences, FiniteSets, TLC

\* ------------------------------------------------------------------ bounds
\* number of event hashes computed (reads of the clock by the recorders)
MaxClock == 3
\* number of epochs opened in one process lifetime
MaxEpochs == 3
\* number of event hashes computed in the leave scenarios
MaxLeaveClock == 6
\* evidence records per mission
MaxEvidence == 1
\* leave records requested
MaxLeaves == 1
MaxLines == 2
\* leave records and petitions filed in the memorialisation scenarios
MaxRecords == 2
\* number of event hashes computed in the memorialisation scenarios
MaxMemorialClock == 11
\* number of event hashes computed in the trust freeze scenarios
MaxFreezeClock == 6
\* the events of a human gate scenario
MaxGateClock == 14
\* the events of a market scenario
MaxMarketClock == 7
\* the events of a scenario that fills a panel to its cap
MaxCapClock == 8
\* the events of a scenario of leaves, returns and quarantine
MaxStatusClock == 7
\* the events of a reviewer assignment scenario
MaxReviewClock == 5
MaxCreated == 2

\* ------------------------------------------------------- program constants
INITIAL_TRUST == 1
MIN_QUORUM == 3
MIN_APPROVE_TO_GRANT == 2
MIN_ADJUDICATOR_TRUST == 4
MIN_DOMAIN_TRUST == 3
MAX_ADJUDICATORS == 5
MIN_ORGANIZATIONS == 2
MIN_REGIONS == 2
MAX_LEAVES_PER_YEAR == 4

\* well-known previous_hash of the first epoch (GENESIS_PREVIOUS_HASH)
GENESIS_PREVIOUS_HASH == <<>>

\* ------------------------------------------------------------ input sets
Adjudicators == {"d1", "d2", "d3"}
RegisterIds == {"w1"}
Actors == Adjudicators \cup RegisterIds
MissionIds == {"m1"}
ScoreInputs == {6}
Verdicts == {"approve", "deny", "abstain"}
LeaveCategories == {"illness"}
Applicants == RegisterIds
\* the adjudicators of the panel scenarios: d4 joins the three of Init
Panel == Adjudicators \cup {"d4"}
\* where d2 works in the panel scenarios: the region of d1 and d4 with
\* another organisation, or their organisation in another region
PanelPostings == {[region |-> "EU", organization |-> "Hospital-B"],
                  [region |-> "US", organization |-> "Hospital-A"]}

\* the records handed to an EventLog used on its own
LogIds == 1..MaxLines
LogPayloads == {[a |-> n] : n \in 1..2}
\* the payloads handed to EventRecord.create: dicts of one and of two keys,
\* and a dict whose value is the tuple (1, 2) or the list [1, 2]
CreatePayloads ==
    {[a |-> 1], [a |-> 2], [a |-> 1, b |-> 2],
     [refs |-> [type |-> "tuple", items |-> <<1, 2>>]],
     [refs |-> [type |-> "list", items |-> <<1, 2>>]]}


\* the sections _persist_state writes, one StateStore.save_* call each, in
\* its order
Sections == <<"roster", "trust_records", "missions", "reviewer_histories", "skill_profiles", "listings", "leave_records", "epoch">>
NumSections == Len(Sections)
\* where the snapshot write is made to fail: 0 never, 1 at its first write
PersistFailPoints == {0, 1}
\* how the write of EventLog._append_to_file ends: 0 the line is written;
\* WriteRefused: open("a") raises OSError, the file is as it was;
\* WriteTorn: f.write raises OSError after part of the line reached the file;
\* WriteNoNewline: f.write raises OSError when only the newline is left
WriteRefused == 1
WriteTorn == 2
WriteNoNewline == 3
\* the last of the snapshot writes made to fail where a later write matters
MaxFailPoint == 2
\* save_skill_profiles among the writes of _persist_state
SkillProfilesSave == 5
\* calibration_window_size of the quality_assessment parameters
CALIBRATION_WINDOW_SIZE == 20
\* market_bid_requirements()["min_trust_to_bid"], in tenths, and
\* market_listing_defaults()["max_bids_per_listing"]: the defaults of submit_bid
MIN_TRUST_TO_BID == 1
MAX_BIDS_PER_LISTING == 50

VARIABLES
    roster,               \* ActorRoster._actors: id -> RosterEntry
    trust_records,        \* id -> TrustRecord
    missions,             \* id -> Mission
    leave_records,        \* leave number -> LeaveRecord
    leave_counter,        \* GenesisService._leave_counter
    listings,             \* GenesisService._listings: id -> MarketListing
    bids,                 \* GenesisService._bids: listing id -> list of Bid
    skill_profiles,       \* GenesisService._skill_profiles: id -> proficiency
    reviewer_histories,   \* _reviewer_assessment_history: id -> assessments kept
    events,               \* EventLog._events
    event_ids,            \* EventLog._event_ids
    file,                 \* the JSONL file behind the EventLog
    event_counter,        \* GenesisService._event_counter
    epoch,                \* EpochService.current_epoch with its buckets
    committed,            \* EpochService.committed_records
    previous_hash,        \* EpochService.previous_hash
    epochs_opened,        \* epochs opened since Init (bounds the run)
    persistence_degraded, \* GenesisService._persistence_degraded
    store_mem,            \* StateStore._state
    store_file,           \* the JSON file behind the StateStore
    clock,                \* logical time of the last hash computed
    result                \* ServiceResult of the last public call

vars == <<roster, trust_records, missions, leave_records, leave_counter, listings, bids, skill_profiles, reviewer_histories,
          events, event_ids, file, event_counter, epoch, committed,
          previous_hash, epochs_opened, persistence_degraded,
          store_mem, store_file, clock, result>>

domainVars == <<roster, trust_records, missions, leave_records, leave_counter, listings, bids, skill_profiles, reviewer_histories>>
logVars == <<events, event_ids, file>>
ledgerVars == <<epoch, committed, previous_hash>>

\* ---------------------------------------------------------------- helpers
Put(f, k, v) == [x \in DOMAIN f \cup {k} |-> IF x = k THEN v ELSE f[x]]
Drop(f, k) == [x \in DOMAIN f \ {k} |-> f[x]]
EmptyMap == [x \in {} |-> 0]

Range(s) == {s[i] : i \in 1..Len(s)}

Ok(op, warning) ==
    [op |-> op, success |-> TRUE, error |-> "none", warning |-> warning,
     data |-> EmptyMap]
\* a success result that carries data for the caller
OkWith(op, warning, data) == [Ok(op, warning) EXCEPT !.data = data]
Fail(op, error) ==
    [op |-> op, success |-> FALSE, error |-> error, warning |-> FALSE,
     data |-> EmptyMap]

\* ------------------------------------------------------------- exceptions
\* the class each failure inside a call is raised as: a duplicate event id
\* is a ValueError of EventLog.append, a failed file write an OSError, the
\* refusals of EpochService a RuntimeError
ExceptionOf(failure) ==
    CASE failure = "duplicate" -> "ValueError"
      [] failure = "io" -> "OSError"
      [] failure = "snapshot" -> "OSError"
      [] failure = "already_open" -> "RuntimeError"
      [] failure = "not_open" -> "RuntimeError"
      [] OTHER -> "Exception"

\* recorders that let the ValueError of a duplicate id through
RecorderCatchesWriteErrors == {"OSError"}

\* the classes the except clauses name: around EventLog.append in the
\* recorders, around _persist_state, around the EpochService calls
RecorderCatches == {"ValueError", "OSError"}
PersistCatches == {"OSError"}
EpochCatches == {"RuntimeError"}

\* try / except: a failure of a caught class becomes the error string msg;
\* any other leaves the call as an exception
Except(catches, failure, msg) ==
    IF ExceptionOf(failure) \in catches THEN msg ELSE "exception"

\* the result of a call that ends with _safe_persist_post_audit: success,
\* with a warning when the snapshot write failed
OkAfterPersist(op, failAt, data) ==
    IF failAt = 0
    THEN OkWith(op, FALSE, data)
    ELSE IF Except(PersistCatches, "snapshot", "warning") = "exception"
         THEN Fail(op, "exception")
         ELSE OkWith(op, TRUE, data)

\* ------------------------------------------------------------ EventRecord
\* the hash the recorders put in the ledger: sha256 of "<data>:<now>"
EventHash(data, now) == <<data, now>>

\* ts.strftime("%Y-%m-%dT%H:%M:%SZ"): the timestamp to the second
FormatTimestamp(ts) == ts.second

\* the keys of the JSON objects of the log in the order of their code
\* points, the order sort_keys writes them in
JsonKeys ==
    <<"a", "actor_id", "b", "data", "event_hash", "event_id", "event_kind",
      "payload", "refs", "timestamp_utc">>

\* the payload keys whose value is a Python sequence, [type, items] with the
\* type "tuple" or "list"; the values of the other keys are JSON scalars
SequenceKeys == {"refs"}

\* the keys of a dict in the orders they can have been inserted in
KeyOrders(d) ==
    {order \in [1..Cardinality(DOMAIN d) -> DOMAIN d] :
        \A i, j \in DOMAIN order : order[i] = order[j] => i = j}

\* the keys of a dict in the order of JsonKeys: the order json.loads
\* inserts them in when it reads a line written with sort_keys
SortedKeys(d) == SelectSeq(JsonKeys, LAMBDA k : k \in DOMAIN d)

\* json.dumps(d) with the dict iterated in insertion order: the text, as
\* the sequence of its members <<key, value>>; the encoder writes a tuple
\* and a list as the same JSON array
JsonDumpsInsertionOrder(d, inserted) ==
    [i \in 1..Len(inserted) |->
        <<inserted[i], IF inserted[i] \in SequenceKeys
                       THEN d[inserted[i]].items ELSE d[inserted[i]]>>]

\* json.dumps(d, sort_keys=True): the members in the order of their keys,
\* whatever the order they were inserted in
JsonDumps(d, inserted) ==
    LET sorted == SortedKeys(d)
    IN [i \in 1..Len(sorted) |->
           <<sorted[i], IF sorted[i] \in SequenceKeys
                        THEN d[sorted[i]].items ELSE d[sorted[i]]>>]

\* json.loads of the text json.dumps wrote for a payload: a JSON array is
\* read as a list
JsonLoads(payload) ==
    [k \in DOMAIN payload |->
        IF k \in SequenceKeys
        THEN [type |-> "list", items |-> payload[k].items]
        ELSE payload[k]]

\* the line _append_to_file writes for a record, as json.loads reads it
LineOf(event) == [event EXCEPT !.payload = JsonLoads(event.payload)]

\* hashlib.sha256(text).hexdigest() behind "sha256:"; the digest stands
\* for the text it was computed from, SHA-256 taken as free of collisions
Sha256(text) == <<"sha256", text>>

\* the canonical JSON text of the five hashed fields, the payload dict
\* nested in the dict literal of EventRecord.create
CanonicalJson(event_id, event_kind, timestamp_utc, actor_id, payload, inserted) ==
    JsonDumps([event_id |-> event_id,
               event_kind |-> event_kind,
               timestamp_utc |-> timestamp_utc,
               actor_id |-> actor_id,
               payload |-> JsonDumps(payload, inserted)],
              <<"event_id", "event_kind", "timestamp_utc", "actor_id", "payload">>)

\* EventRecord.create on a payload whose keys were inserted in the order
\* `inserted`: the five logical fields and the hash of their canonical JSON
EventRecordCreateFrom(event_id, event_kind, actor_id, payload, inserted, now) ==
    [event_id |-> event_id,
     event_kind |-> event_kind,
     timestamp_utc |-> now,
     actor_id |-> actor_id,
     payload |-> payload,
     event_hash |-> Sha256(CanonicalJson(event_id, event_kind, now, actor_id,
                                         payload, inserted))]

\* EventRecord.create on a payload of the service, whose keys are taken as
\* inserted in the order of JsonKeys
EventRecordCreate(event_id, event_kind, actor_id, payload, now) ==
    EventRecordCreateFrom(event_id, event_kind, actor_id, payload,
                          SortedKeys(payload), now)

\* --------------------------------------------------------------- EventLog
\* json.loads raises JSONDecodeError on the line
LineUnparseable(l) == l.event_kind = "unparseable"

\* an append that does not look at the ids it already holds
EventLogAppendUnchecked(log, event, writeFails) ==
    LET inMem == [log EXCEPT !.events = Append(log.events, event),
                             !.event_ids = log.event_ids \cup {event.event_id}]
    IN IF writeFails # 0
       THEN [log |-> inMem, err |-> "io"]
       ELSE [log |-> [inMem EXCEPT !.file = Append(log.file, LineOf(event))],
             err |-> "none"]

\* an append that puts the new record in front of the older ones
EventLogAppendNewestFirst(log, event, writeFails) ==
    IF event.event_id \in log.event_ids
    THEN [log |-> log, err |-> "duplicate"]
    ELSE LET inMem == [log EXCEPT !.events = <<event>> \o log.events,
                                  !.event_ids = log.event_ids \cup {event.event_id}]
         IN IF writeFails # 0
            THEN [log |-> inMem, err |-> "io"]
            ELSE [log |-> [inMem EXCEPT !.file = <<LineOf(event)>> \o log.file],
                  err |-> "none"]

\* EventLog.append: duplicate check, in-memory append, then the file write
\* of _append_to_file: open("a") and one write of the JSON text of the
\* record followed by its newline.
\* log is [events, event_ids, file]; file is the sequence of the lines of
\* the file, a line being the record json.loads reads from it. A line that
\* json.loads cannot parse has the event_kind "unparseable"; a last line
\* that does not end with a newline carries the field newline (FALSE).
\* writeFails tells how the write ends, every failure raising OSError:
\*   0               the text and its newline are written;
\*   WriteRefused    nothing reaches the file;
\*   WriteTorn       the beginning of the text reaches the file;
\*   WriteNoNewline  the text reaches the file, its newline does not.
\* What is written behind a last line without newline joins that line,
\* which is then a text json.loads cannot parse; the line ends with the
\* newline of the first write that gets that far.
EventLogAppend(log, event, writeFails) ==
    IF event.event_id \in log.event_ids
    THEN [log |-> log, err |-> "duplicate"]
    ELSE LET inMem == [log EXCEPT !.events = Append(log.events, event),
                                  !.event_ids = log.event_ids \cup {event.event_id}]
             f == log.file
             n == Len(f)
             joins == n > 0 /\ "newline" \in DOMAIN f[n]
             ended == writeFails = 0
             \* the line l holding a text that cannot be parsed (bad) or its
             \* own, with its newline (ended) or without
             Line(l, bad) ==
                 [x \in (DOMAIN l \ {"newline"})
                           \cup (IF ended THEN {} ELSE {"newline"}) |->
                     IF x = "newline" THEN FALSE
                     ELSE IF x = "event_kind" /\ bad THEN "unparseable"
                     ELSE l[x]]
             written == IF writeFails = WriteRefused
                        THEN f
                        ELSE IF joins
                        THEN [f EXCEPT ![n] = Line(f[n], TRUE)]
                        ELSE IF writeFails = 0
                        THEN Append(f, LineOf(event))
                        ELSE Append(f, Line(LineOf(event), writeFails = WriteTorn))
         IN [log |-> [inMem EXCEPT !.file = written],
             err |-> IF writeFails = 0 THEN "none" ELSE "io"]

\* the canonical hash _load_from_file recomputes from the fields of a line
LineHash(l) ==
    Sha256(CanonicalJson(l.event_id, l.event_kind, l.timestamp_utc, l.actor_id,
                         l.payload, SortedKeys(l.payload)))

\* the event_id of the record at line i is that of a record at an earlier line
LineReplayed(f, i) ==
    /\ ~LineUnparseable(f[i])
    /\ \E j \in 1..(i - 1) : ~LineUnparseable(f[j]) /\ f[j].event_id = f[i].event_id

\* the stored event_hash of the record at line i is not the hash of its fields
LineTampered(f, i) == ~LineUnparseable(f[i]) /\ f[i].event_hash # LineHash(f[i])

\* the line at which _load_from_file raises, reading top down; 0 if none
FirstBadLine(f) ==
    LET bad == {i \in 1..Len(f) : \/ LineUnparseable(f[i])
                                  \/ LineReplayed(f, i)
                                  \/ LineTampered(f, i)}
    IN IF bad = {} THEN 0 ELSE CHOOSE i \in bad : \A j \in bad : i <= j

\* the EventRecord _load_from_file builds from a line
EventOfLine(l) ==
    [event_id |-> l.event_id,
     event_kind |-> l.event_kind,
     timestamp_utc |-> l.timestamp_utc,
     actor_id |-> l.actor_id,
     payload |-> l.payload,
     event_hash |-> l.event_hash]

\* a loader that drops the lines it cannot accept and keeps the others
EventLogLoadDropping(f) ==
    LET Good(l) == /\ l.event_hash = LineHash(l)
                   /\ \A i \in 1..Len(f) : f[i] = l => ~LineReplayed(f, i)
        kept == SelectSeq(f, Good)
    IN [log |-> [events |-> [i \in 1..Len(kept) |-> EventOfLine(kept[i])],
                 event_ids |-> {kept[i].event_id : i \in 1..Len(kept)},
                 file |-> f],
        err |-> "none"]

\* a loader that verifies the hashes but not the ids
EventLogLoadAcceptingReplay(f) ==
    IF \E i \in 1..Len(f) : LineTampered(f, i)
    THEN [log |-> [events |-> <<>>, event_ids |-> {}, file |-> f],
          err |-> "integrity"]
    ELSE [log |-> [events |-> [i \in 1..Len(f) |-> EventOfLine(f[i])],
                   event_ids |-> {f[i].event_id : i \in 1..Len(f)},
                   file |-> f],
          err |-> "none"]

\* EventLog(storage_path): _load_from_file reads the lines top down; at each
\* line json.loads comes first, then the duplicate-id check, then the hash
\* check, and each raises (JSONDecodeError, ValueError) out of the
\* constructor, so that no log comes online
EventLogLoad(f) ==
    LET b == FirstBadLine(f)
    IN IF b # 0
       THEN [log |-> [events |-> <<>>, event_ids |-> {}, file |-> f],
             err |-> IF LineUnparseable(f[b]) THEN "decode"
                     ELSE IF LineReplayed(f, b) THEN "replay" ELSE "integrity"]
       ELSE [log |-> [events |-> [i \in 1..Len(f) |-> EventOfLine(f[i])],
                      event_ids |-> {f[i].event_id : i \in 1..Len(f)},
                      file |-> f],
             err |-> "none"]

\* ------------------------------------------------------------ EpochService
NoEpoch == [state |-> "none", mission |-> <<>>, trust |-> <<>>]

\* current_epoch is not None and not current_epoch.closed
EpochIsOpen(ep) == ep.state = "open"

\* a ledger that files every hash twice
LedgerInsertTwice(ep, bucket, h) ==
    IF bucket = "trust"
    THEN [ep EXCEPT !.trust = Append(Append(ep.trust, h), h)]
    ELSE [ep EXCEPT !.mission = Append(Append(ep.mission, h), h)]

\* EpochService.record_mission_event / record_trust_delta
LedgerInsert(ep, bucket, h) ==
    IF bucket = "trust"
    THEN [ep EXCEPT !.trust = Append(ep.trust, h)]
    ELSE [ep EXCEPT !.mission = Append(ep.mission, h)]

\* EpochService.epoch_event_counts
EpochEventCounts(ep) == [mission |-> Len(ep.mission), trust |-> Len(ep.trust)]

\* the commitment hash of a closed epoch
CommitmentHash(prev, ep, beacon) == <<prev, ep.mission, ep.trust, beacon>>

\* -------------------------------------------------- the event recorders
\* the audit state the recorders read and write
Audit ==
    [events |-> events, event_ids |-> event_ids, file |-> file,
     event_counter |-> event_counter, clock |-> clock, epoch |-> epoch]

\* a recorder that inserts the hash in the ledger before the durable append
RecordEventLedgerFirst(a, kind, actor, data, bucket, writeFails) ==
    IF ~EpochIsOpen(a.epoch)
    THEN [a |-> a, err |-> "no_epoch"]
    ELSE LET now == a.clock + 1
             h == EventHash(data, now)
             id == a.event_counter + 1
             ev == EventRecordCreate(id, kind, actor,
                                     [data |-> data, event_hash |-> h], now)
             ap == EventLogAppend([events |-> a.events,
                                   event_ids |-> a.event_ids,
                                   file |-> a.file], ev, writeFails)
         IN [a |-> [a EXCEPT !.clock = now,
                             !.event_counter = id,
                             !.events = ap.log.events,
                             !.event_ids = ap.log.event_ids,
                             !.file = ap.log.file,
                             !.epoch = LedgerInsert(a.epoch, bucket, h)],
             err |-> IF ap.err # "none"
                     THEN Except(RecorderCatches, ap.err, "event_log")
                     ELSE "none"]

\* GenesisService._next_event_id followed by EventRecord.create and
\* EventLog.append, then the ledger insertion: the three steps shared by
\* every _record_*_event helper.  Returns the audit state and the error.
\*   1. pre-check that an epoch is open
\*   2. durable append (the counter is consumed even when it fails)
\*   3. ledger insertion
RecordEvent(a, kind, actor, data, bucket, writeFails) ==
    IF ~EpochIsOpen(a.epoch)
    THEN [a |-> a, err |-> "no_epoch"]
    ELSE LET now == a.clock + 1
             h == EventHash(data, now)
             id == a.event_counter + 1
             ev == EventRecordCreate(id, kind, actor,
                                     [data |-> data, event_hash |-> h], now)
             ap == EventLogAppend([events |-> a.events,
                                   event_ids |-> a.event_ids,
                                   file |-> a.file], ev, writeFails)
             a1 == [a EXCEPT !.clock = now,
                             !.event_counter = id,
                             !.events = ap.log.events,
                             !.event_ids = ap.log.event_ids,
                             !.file = ap.log.file]
         IN IF ap.err # "none"
            THEN [a |-> a1, err |-> Except(RecorderCatches, ap.err, "event_log")]
            ELSE [a |-> [a1 EXCEPT !.epoch = LedgerInsert(a1.epoch, bucket, h)],
                  err |-> "none"]

\* _record_mission_event(mission, action)
RecordMissionEvent(a, mission_id, worker, action, writeFails) ==
    RecordEvent(a, "mission_transition", worker, <<mission_id, action>>,
                "mission", writeFails)

\* _record_trust_event(actor_id, delta)
RecordTrustEvent(a, actor_id, delta, writeFails) ==
    RecordEvent(a, "trust_updated", actor_id, <<actor_id, ToString(delta)>>,
                "trust", writeFails)

\* _record_leave_event(record, action): the kind follows the action, the
\* hash goes to the mission bucket
LeaveEventKind(action) ==
    CASE action = "requested" -> "leave_requested"
      [] action = "adjudicated" -> "leave_adjudicated"
      [] action = "approved" -> "leave_approved"
      [] action = "denied" -> "leave_denied"
      [] action = "returned" -> "leave_returned"
      [] action = "permanent" -> "leave_permanent"
      [] action = "memorialised" -> "leave_memorialised"
      [] OTHER -> "leave_requested"

RecordLeaveEvent(a, leave_id, actor_id, action, writeFails) ==
    RecordEvent(a, LeaveEventKind(action), actor_id,
                <<ToString(leave_id), actor_id, action>>, "mission", writeFails)

SetAudit(a) ==
    /\ events' = a.events
    /\ event_ids' = a.event_ids
    /\ file' = a.file
    /\ event_counter' = a.event_counter
    /\ clock' = a.clock
    /\ epoch' = a.epoch

\* ------------------------------------------------------------- StateStore
\* StateStore._state and the JSON file written from it. parseable is FALSE
\* for a file whose JSON text is cut short: json.load raises on it.
Snapshot(r, t, m, l, ph, cc) ==
    [roster |-> r, trust_records |-> t, missions |-> m,
     reviewer_histories |-> reviewer_histories,
     skill_profiles |-> skill_profiles,
     listings |-> [listings |-> listings, bids |-> bids],
     leave_records |-> l,
     epoch |-> [previous_hash |-> ph, committed_count |-> cc],
     parseable |-> TRUE]

\* GenesisService._persist_state over StateStore.save_*: each save sets its
\* section in StateStore._state and rewrites the whole file from _state
\* (open("w"), which empties the file, then json.dump).
\* failAt = 0: every write succeeds. failAt = k in 1..NumSections: the k-th
\* write raises OSError at open, after _state took the k-th section and the
\* file the ones before. failAt = NumSections + k: the k-th write raises
\* OSError after open emptied the file, inside json.dump: the file holds the
\* beginning of the text of _state and cannot be parsed.
PersistState(mem, disk, cur, failAt) ==
    IF failAt = 0
    THEN [mem |-> cur, disk |-> cur, ok |-> TRUE]
    ELSE LET torn == failAt > NumSections
             k == IF torn THEN failAt - NumSections ELSE failAt
             upTo(n) == [s \in DOMAIN mem |->
                            IF \E i \in 1..n : Sections[i] = s
                            THEN cur[s] ELSE mem[s]]
         IN [mem |-> upTo(k),
             disk |-> IF torn THEN [upTo(k) EXCEPT !.parseable = FALSE]
                      ELSE IF k = 1 THEN disk ELSE upTo(k - 1),
             ok |-> FALSE]

\* the snapshot of the state as it is in memory
CurrentSnapshot(r, t, m, l) == Snapshot(r, t, m, l, previous_hash, Len(committed))

\* ------------------------------------------------------------------- Init
\* RosterEntry / TrustRecord of a registered adjudicator: a human with
\* global and healthcare-domain trust above the adjudication thresholds
AdjudicatorEntry(d) ==
    [actor_kind |-> "human", trust_score |-> 6, status |-> "active",
     region |-> CASE d = "d1" -> "EU" [] d = "d2" -> "US" [] OTHER -> "APAC",
     organization |-> CASE d = "d1" -> "Hospital-A" [] d = "d2" -> "Hospital-B"
                        [] OTHER -> "Clinic-C",
     model_family |-> "human_reviewer", method_type |-> "human_reviewer"]
AdjudicatorTrust(d) ==
    [actor_kind |-> "human", score |-> 6, quarantined |-> FALSE,
     last_active_utc |-> 0,
     domain_scores |-> [x \in {"healthcare"} |-> [score |-> 5, last_active_utc |-> 0]]]

InitResult == Ok("init", FALSE)

\* GenesisService.__init__ over an empty event log file and a StateStore
\* whose snapshot holds the three adjudicators
Init ==
    /\ roster = [d \in Adjudicators |-> AdjudicatorEntry(d)]
    /\ trust_records = [d \in Adjudicators |-> AdjudicatorTrust(d)]
    /\ missions = EmptyMap
    /\ leave_records = EmptyMap
    /\ leave_counter = 0
    /\ listings = EmptyMap
    /\ bids = EmptyMap
    /\ skill_profiles = EmptyMap
    /\ reviewer_histories = EmptyMap
    /\ events = <<>>
    /\ event_ids = {}
    /\ file = <<>>
    /\ event_counter = 0
    /\ epoch = NoEpoch
    /\ committed = <<>>
    /\ previous_hash = GENESIS_PREVIOUS_HASH
    /\ epochs_opened = 0
    /\ persistence_degraded = FALSE
    /\ store_mem = Snapshot([d \in Adjudicators |-> AdjudicatorEntry(d)],
                            [d \in Adjudicators |-> AdjudicatorTrust(d)],
                            EmptyMap, EmptyMap, GENESIS_PREVIOUS_HASH, 0)
    /\ store_file = store_mem
    /\ clock = 0
    /\ result = InitResult

\* ------------------------------------------------- persistence wrappers
\* _safe_persist: the persist outcome for the state (r, t, m, l) the
\* operation has built; the caller rolls back when ok is FALSE
SafePersist(r, t, m, l, failAt) ==
    PersistState(store_mem, store_file, CurrentSnapshot(r, t, m, l), failAt)

\* a post-audit persist that also clears the flag when the write succeeds
SafePersistPostAuditClearing(cur, failAt) ==
    LET p == PersistState(store_mem, store_file, cur, failAt)
    IN /\ store_mem' = p.mem
       /\ store_file' = p.disk
       /\ persistence_degraded' = ~p.ok

\* _safe_persist_post_audit: never rolls back; a failed write sets the
\* _persistence_degraded flag and yields a warning
SafePersistPostAudit(cur, failAt) ==
    LET p == PersistState(store_mem, store_file, cur, failAt)
    IN /\ store_mem' = p.mem
       /\ store_file' = p.disk
       /\ persistence_degraded' = IF p.ok THEN persistence_degraded ELSE TRUE

\* --------------------------------------------------------------- actors
NewRosterEntry ==
    [actor_kind |-> "human", trust_score |-> INITIAL_TRUST, status |-> "active",
     region |-> "EU", organization |-> "WorkCorp",
     model_family |-> "human_reviewer", method_type |-> "human_reviewer"]
NewTrustRecord ==
    [actor_kind |-> "human", score |-> INITIAL_TRUST, quarantined |-> FALSE,
     last_active_utc |-> 0, domain_scores |-> EmptyMap]

\* GenesisService.register_actor
register_actor(actor_id, failAt) ==
    LET r1 == Put(roster, actor_id, NewRosterEntry)
        t1 == Put(trust_records, actor_id, NewTrustRecord)
        p == SafePersist(r1, t1, missions, leave_records, failAt)
    IN /\ store_mem' = p.mem
       /\ store_file' = p.disk
       /\ IF p.ok
          THEN /\ roster' = r1
               /\ trust_records' = t1
               /\ result' = Ok("register_actor", FALSE)
          ELSE /\ roster' = Drop(r1, actor_id)
               /\ trust_records' = Drop(t1, actor_id)
               /\ result' = Fail("register_actor",
                                 Except(PersistCatches, "snapshot", "persistence"))
       /\ UNCHANGED <<missions, leave_records, leave_counter, listings, bids, skill_profiles, reviewer_histories, events, event_ids,
                      file, event_counter, epoch, committed, previous_hash,
                      epochs_opened, persistence_degraded, clock>>

\* GenesisService.quarantine_actor: the status and the trust flag are set,
\* then persisted; the rollback of a failed write restores both
quarantine_actor(actor_id, failAt) ==
    IF actor_id \notin DOMAIN roster
    THEN /\ result' = Fail("quarantine_actor", "not_found")
         /\ UNCHANGED <<roster, trust_records, missions, leave_records,
                        leave_counter, listings, bids, skill_profiles, reviewer_histories, events, event_ids, file, event_counter,
                        epoch, committed, previous_hash, epochs_opened,
                        persistence_degraded, store_mem, store_file, clock>>
    ELSE LET r1 == [roster EXCEPT ![actor_id].status = "quarantined"]
             t1 == IF actor_id \in DOMAIN trust_records
                   THEN [trust_records EXCEPT ![actor_id].quarantined = TRUE]
                   ELSE trust_records
             p == SafePersist(r1, t1, missions, leave_records, failAt)
         IN /\ store_mem' = p.mem
            /\ store_file' = p.disk
            /\ IF p.ok
               THEN /\ roster' = r1
                    /\ trust_records' = t1
                    /\ result' = Ok("quarantine_actor", FALSE)
               ELSE /\ UNCHANGED <<roster, trust_records>>
                    /\ result' = Fail("quarantine_actor",
                                      Except(PersistCatches, "snapshot", "persistence"))
            /\ UNCHANGED <<missions, leave_records, leave_counter, listings, bids, skill_profiles, reviewer_histories, events,
                           event_ids, file, event_counter, epoch, committed,
                           previous_hash, epochs_opened, persistence_degraded,
                           clock>>

\* -------------------------------------------- the fail-closed epilogue
\* the domain state an operation leaves in memory
Dom(r, t, m, l, lc) ==
    [roster |-> r, trust_records |-> t, missions |-> m, leave_records |-> l,
     leave_counter |-> lc, listings |-> listings, bids |-> bids,
     skill_profiles |-> skill_profiles, reviewer_histories |-> reviewer_histories]

SetDomain(d) ==
    /\ roster' = d.roster
    /\ trust_records' = d.trust_records
    /\ missions' = d.missions
    /\ leave_records' = d.leave_records
    /\ leave_counter' = d.leave_counter
    /\ listings' = d.listings
    /\ bids' = d.bids
    /\ skill_profiles' = d.skill_profiles
    /\ reviewer_histories' = d.reviewer_histories

DomSnapshot(d) ==
    [CurrentSnapshot(d.roster, d.trust_records, d.missions, d.leave_records)
        EXCEPT !.skill_profiles = d.skill_profiles,
               !.reviewer_histories = d.reviewer_histories,
               !.listings = [listings |-> d.listings, bids |-> d.bids]]

\* an epilogue that treats the post-audit snapshot like the pre-audit one:
\* a failed write undoes the mutation and fails the operation
FinishRollingBack(op, rec, good, bad, failAt) ==
    /\ SetAudit(rec.a)
    /\ IF rec.err = "none" /\ failAt = 0
       THEN /\ SetDomain(good)
            /\ SafePersistPostAudit(DomSnapshot(good), failAt)
            /\ result' = Ok(op, FALSE)
       ELSE /\ SetDomain(bad)
            /\ UNCHANGED <<store_mem, store_file, persistence_degraded>>
            /\ result' = Fail(op, IF rec.err = "none" THEN "persistence" ELSE rec.err)
    /\ UNCHANGED <<committed, previous_hash, epochs_opened>>

\* what every single-event operation does once its recorder returned rec:
\* on an error it leaves the state `bad` its rollback code produces and
\* fails; otherwise it keeps `good`, attempts the post-audit snapshot and
\* succeeds, with a warning when the snapshot write failed
Finish(op, rec, good, bad, failAt) ==
    /\ SetAudit(rec.a)
    /\ IF rec.err = "none"
       THEN /\ SetDomain(good)
            /\ SafePersistPostAudit(DomSnapshot(good), failAt)
            /\ result' = OkAfterPersist(op, failAt, EmptyMap)
       ELSE /\ SetDomain(bad)
            /\ UNCHANGED <<store_mem, store_file, persistence_degraded>>
            /\ result' = Fail(op, rec.err)
    /\ UNCHANGED <<committed, previous_hash, epochs_opened>>

\* an early return: an error result and nothing else
Reject(op, error) ==
    /\ result' = Fail(op, error)
    /\ UNCHANGED <<roster, trust_records, missions, leave_records,
                   leave_counter, listings, bids, skill_profiles, reviewer_histories, events, event_ids, file, event_counter,
                   epoch, committed, previous_hash, epochs_opened,
                   persistence_degraded, store_mem, store_file, clock>>

Here == Dom(roster, trust_records, missions, leave_records, leave_counter)

\* -------------------------------------------------------------- missions
\* PolicyResolver.resolve_tier over the runtime policy the tests load:
\* regulated_analysis is R2, documentation_update R0
resolve_tier(mission_class) ==
    IF mission_class = "regulated_analysis" THEN "R2" ELSE "R0"

\* PolicyResolver.tier_policy(tier).human_final_gate
human_final_gate(tier) == tier = "R2"

NewMission(mission_class, worker_id) ==
    [state |-> "draft", worker_id |-> worker_id, evidence |-> 0,
     risk_tier |-> resolve_tier(mission_class), human_final_approval |-> FALSE,
     reviewers |-> <<>>, review_decisions |-> <<>>, skill_requirements |-> <<>>]

\* mission.worker_id or "system"
MissionActor(m) == IF m.worker_id = "none" THEN "system" ELSE m.worker_id

\* MissionStateMachine.transition: the legal moves the model exercises
LegalTransition(from, target) ==
    \/ from = "draft" /\ target = "submitted"
    \/ from = "submitted" /\ target = "assigned"
    \/ from = "assigned" /\ target = "in_review"
    \/ from = "in_review" /\ target = "review_complete"
    \/ from = "review_complete" /\ target \in {"human_gate_pending", "approved"}
    \/ from = "human_gate_pending" /\ target \in {"approved", "rejected"}

\* GenesisService.create_mission
create_mission(mission_id, mission_class, worker_id, writeFails, failAt) ==
    IF mission_id \in DOMAIN missions
    THEN Reject("create_mission", "exists")
    ELSE LET m == NewMission(mission_class, worker_id)
             rec == RecordMissionEvent(Audit, mission_id, MissionActor(m),
                                       "created", writeFails)
         IN Finish("create_mission", rec,
                   [Here EXCEPT !.missions = Put(missions, mission_id, m)],
                   Here, failAt)

\* GenesisService._transition_mission
TransitionMission(op, mission_id, target, writeFails, failAt) ==
    IF mission_id \notin DOMAIN missions
    THEN Reject(op, "not_found")
    ELSE IF ~LegalTransition(missions[mission_id].state, target)
    THEN Reject(op, "illegal_transition")
    ELSE LET rec == RecordMissionEvent(Audit, mission_id,
                                       MissionActor(missions[mission_id]),
                                       "transition:" \o target, writeFails)
         IN Finish(op, rec,
                   [Here EXCEPT !.missions[mission_id].state = target],
                   Here, failAt)

\* GenesisService.submit_mission
submit_mission(mission_id, writeFails, failAt) ==
    TransitionMission("submit_mission", mission_id, "submitted", writeFails, failAt)

\* GenesisService.complete_review
complete_review(mission_id, writeFails, failAt) ==
    TransitionMission("complete_review", mission_id, "review_complete", writeFails, failAt)

\* ReviewDecisionVerdict
ReviewVerdicts == {"APPROVE", "REJECT", "ABSTAIN"}

\* GenesisService.submit_review: the decision is appended to
\* mission.review_decisions, popped again when its event fails
submit_review(mission_id, reviewer_id, verdict, writeFails, failAt) ==
    IF mission_id \notin DOMAIN missions
    THEN Reject("submit_review", "not_found")
    ELSE IF verdict \notin ReviewVerdicts
    THEN Reject("submit_review", "invalid_verdict")
    ELSE LET decision == [reviewer_id |-> reviewer_id, decision |-> verdict]
             rec == RecordMissionEvent(Audit, mission_id,
                                       MissionActor(missions[mission_id]),
                                       "review:" \o reviewer_id \o ":" \o verdict,
                                       writeFails)
         IN Finish("submit_review", rec,
                   [Here EXCEPT !.missions[mission_id].review_decisions =
                                    Append(@, decision)],
                   Here, failAt)

\* ------------------------------------------------- quality assessment
\* GenesisService.is_actor_on_leave
is_actor_on_leave(actor_id) ==
    \E n \in DOMAIN leave_records :
        /\ leave_records[n].actor_id = actor_id
        /\ leave_records[n].state \in {"active", "memorialised"}

\* the state a call hands to the calls it makes: the domain state d, the
\* audit state a, the StateStore and the degraded flag
Machine(d, a) ==
    [d |-> d, a |-> a, mem |-> store_mem, disk |-> store_file,
     degraded |-> persistence_degraded]

SetMachine(st) ==
    /\ SetDomain(st.d)
    /\ SetAudit(st.a)
    /\ store_mem' = st.mem
    /\ store_file' = st.disk
    /\ persistence_degraded' = st.degraded

\* _safe_persist_post_audit inside a call
PersistPostAuditIn(st, failAt) ==
    LET p == PersistState(st.mem, st.disk, DomSnapshot(st.d), failAt)
    IN [st EXCEPT !.mem = p.mem, !.disk = p.disk,
                  !.degraded = IF p.ok THEN @ ELSE TRUE]

\* _record_quality_event: the event is of the worker, its hash goes to the
\* mission bucket
RecordQualityEvent(a, mission_id, worker_id, writeFails) ==
    RecordEvent(a, "quality_assessed", worker_id,
                <<mission_id, "quality_assessed">>, "mission", writeFails)

\* update_trust as _assess_and_update_quality calls it, its result used for
\* the report only: nothing changes without a trust record or on leave, a
\* failed event restores the scores
UpdateTrustIn(st, actor_id, new_score, writeFails) ==
    IF actor_id \notin DOMAIN st.d.trust_records \/ is_actor_on_leave(actor_id)
    THEN st
    ELSE LET delta == new_score - st.d.trust_records[actor_id].score
             rec == RecordTrustEvent(st.a, actor_id, delta, writeFails)
             r1 == IF actor_id \in DOMAIN st.d.roster
                   THEN [st.d.roster EXCEPT ![actor_id].trust_score = new_score]
                   ELSE st.d.roster
         IN IF rec.err # "none"
            THEN [st EXCEPT !.a = rec.a]
            ELSE PersistPostAuditIn(
                     [st EXCEPT !.a = rec.a,
                                !.d.trust_records[actor_id].score = new_score,
                                !.d.roster = r1], 0)

\* the loop over report.reviewer_assessments, one per review decision in
\* order: the reviewer's trust update, then the assessment appended to the
\* reviewer's history, trimmed to the calibration window; a reviewer
\* without a trust record is skipped
RECURSIVE ReviewersAssessed(_, _, _)
ReviewersAssessed(st, decisions, quality) ==
    IF decisions = <<>>
    THEN st
    ELSE LET reviewer_id == Head(decisions).reviewer_id
             updated == UpdateTrustIn(st, reviewer_id, quality.reviewer_score,
                                      quality.trustWriteFails)
             kept == IF reviewer_id \in DOMAIN st.d.reviewer_histories
                     THEN st.d.reviewer_histories[reviewer_id] ELSE 0
             appended == IF kept + 1 > CALIBRATION_WINDOW_SIZE
                         THEN CALIBRATION_WINDOW_SIZE ELSE kept + 1
         IN ReviewersAssessed(
                IF reviewer_id \notin DOMAIN st.d.trust_records
                THEN st
                ELSE [updated EXCEPT !.d.reviewer_histories =
                                         Put(@, reviewer_id, appended)],
                Tail(decisions), quality)

\* GenesisService._assess_and_update_quality for a mission of an objective
\* domain: the state it leaves and its error. `quality` holds the scores
\* TrustEngine.apply_update computes from the derived qualities of the
\* worker and of a reviewer, how the appends of the quality event and of
\* the trust events end, and the proficiency
\* SkillOutcomeUpdater.update_from_outcome leaves the worker's profile at
\* (_update_skills_from_outcome, for a mission with skill requirements;
\* the profile is created when the worker has none).
AssessAndUpdateQuality(st, mission_id, quality) ==
    IF mission_id \notin DOMAIN st.d.missions
    THEN [st |-> st, err |-> "not_found"]
    ELSE IF st.d.missions[mission_id].state \notin {"approved", "rejected"}
    THEN [st |-> st, err |-> "not_terminal"]
    ELSE IF st.d.missions[mission_id].worker_id = "none"
    THEN [st |-> st, err |-> "no_worker"]
    ELSE LET mission == st.d.missions[mission_id]
             rec == RecordQualityEvent(st.a, mission_id, mission.worker_id,
                                       quality.writeFails)
             worker == UpdateTrustIn([st EXCEPT !.a = rec.a], mission.worker_id,
                                     quality.worker_score, quality.trustWriteFails)
             reviewers == ReviewersAssessed(worker, mission.review_decisions, quality)
             skilled(assessed) ==
                 IF mission.skill_requirements # <<>>
                 THEN [assessed EXCEPT !.d.skill_profiles =
                          Put(@, mission.worker_id, quality.skill_level)]
                 ELSE assessed
         IN IF rec.err # "none"
            THEN [st |-> [st EXCEPT !.a = rec.a], err |-> rec.err]
            ELSE [st |-> PersistPostAuditIn(skilled(reviewers), 0), err |-> "none"]

\* GenesisService.assess_quality
assess_quality(mission_id, quality) ==
    LET qa == AssessAndUpdateQuality(Machine(Here, Audit), mission_id, quality)
    IN /\ SetMachine(qa.st)
       /\ result' = IF qa.err = "none"
                    THEN Ok("assess_quality", FALSE)
                    ELSE Fail("assess_quality", qa.err)
       /\ UNCHANGED <<committed, previous_hash, epochs_opened>>

\* _transition_mission(mission_id, target) over the state `from` and the
\* audit state a0 and, when it succeeds, _assess_and_update_quality, whose
\* result is filed under result.data: the end of approve_mission,
\* human_gate_approve and human_gate_reject
TransitionAndAssess(op, mission_id, target, from, a0, writeFails, failAt, quality) ==
    LET rec == RecordMissionEvent(a0, mission_id,
                                  MissionActor(from.missions[mission_id]),
                                  "transition:" \o target, writeFails)
        moved == [from EXCEPT !.missions[mission_id].state = target]
        persisted == PersistPostAuditIn(Machine(moved, rec.a), failAt)
        qa == AssessAndUpdateQuality(persisted, mission_id, quality)
    IN /\ IF ~LegalTransition(from.missions[mission_id].state, target)
          THEN /\ SetMachine(Machine(from, a0))
               /\ result' = Fail(op, "illegal_transition")
          ELSE IF rec.err # "none"
          THEN /\ SetMachine(Machine(from, rec.a))
               /\ result' = Fail(op, rec.err)
          ELSE /\ SetMachine(qa.st)
               /\ result' = OkAfterPersist(op, failAt, EmptyMap)
       /\ UNCHANGED <<committed, previous_hash, epochs_opened>>

\* GenesisService.approve_mission
approve_mission(mission_id, writeFails, failAt, quality) ==
    IF mission_id \notin DOMAIN missions
    THEN Reject("approve_mission", "not_found")
    ELSE IF /\ human_final_gate(missions[mission_id].risk_tier)
            /\ ~missions[mission_id].human_final_approval
    THEN TransitionMission("approve_mission", mission_id, "human_gate_pending",
                           writeFails, failAt)
    ELSE TransitionAndAssess("approve_mission", mission_id, "approved", Here,
                             Audit, writeFails, failAt, quality)

\* the checks human_gate_approve and human_gate_reject share: the error of
\* the first that fails, "none" when the call goes on
HumanGateCheck(mission_id, actor_id) ==
    IF mission_id \notin DOMAIN missions THEN "not_found"
    ELSE IF missions[mission_id].state # "human_gate_pending" THEN "not_pending"
    ELSE IF actor_id \notin DOMAIN roster THEN "actor_not_found"
    ELSE IF roster[actor_id].actor_kind # "human" THEN "not_human"
    ELSE "none"

\* human_gate_approve or human_gate_reject past the checks: the gate event,
\* then _transition_mission(target) with its own event and the quality
\* assessment. `marked` is the state the gate event is recorded over,
\* `unmarked` the one its failure restores; a failed transition restores
\* mission.state only
HumanGateDecision(op, mission_id, actor_id, target, marked, unmarked, writeFails1, writeFails2, failAt, quality) ==
    LET rec1 == RecordMissionEvent(Audit, mission_id,
                                   MissionActor(missions[mission_id]),
                                   op \o ":" \o actor_id, writeFails1)
    IN IF rec1.err # "none"
       THEN Finish(op, rec1, unmarked, unmarked, failAt)
       ELSE TransitionAndAssess(op, mission_id, target, marked, rec1.a,
                                writeFails2, failAt, quality)

\* GenesisService.human_gate_approve
human_gate_approve(mission_id, approver_id, writeFails1, writeFails2, failAt, quality) ==
    IF HumanGateCheck(mission_id, approver_id) # "none"
    THEN Reject("human_gate_approve", HumanGateCheck(mission_id, approver_id))
    ELSE HumanGateDecision("human_gate_approve", mission_id, approver_id,
             "approved",
             [Here EXCEPT !.missions[mission_id].human_final_approval = TRUE],
             [Here EXCEPT !.missions[mission_id].human_final_approval = FALSE],
             writeFails1, writeFails2, failAt, quality)

\* GenesisService.human_gate_reject
human_gate_reject(mission_id, rejector_id, writeFails1, writeFails2, failAt, quality) ==
    IF HumanGateCheck(mission_id, rejector_id) # "none"
    THEN Reject("human_gate_reject", HumanGateCheck(mission_id, rejector_id))
    ELSE HumanGateDecision("human_gate_reject", mission_id, rejector_id,
             "rejected", Here, Here, writeFails1, writeFails2, failAt, quality)

\* GenesisService.add_evidence with a well-formed evidence record
add_evidence(mission_id) ==
    IF mission_id \notin DOMAIN missions
    THEN Reject("add_evidence", "not_found")
    ELSE /\ missions' = [missions EXCEPT ![mission_id].evidence = @ + 1]
         /\ result' = Ok("add_evidence", FALSE)
         /\ UNCHANGED <<roster, trust_records, leave_records, leave_counter, listings, bids, skill_profiles, reviewer_histories,
                        events, event_ids, file, event_counter, epoch,
                        committed, previous_hash, epochs_opened,
                        persistence_degraded, store_mem, store_file, clock>>

\* ----------------------------------------------------------------- trust
\* GenesisService.update_trust for a human actor; new_score is the score
\* TrustEngine.apply_update computes from the quality inputs
update_trust(actor_id, new_score, writeFails, failAt) ==
    IF actor_id \notin DOMAIN trust_records
    THEN Reject("update_trust", "not_found")
    ELSE IF is_actor_on_leave(actor_id)
    THEN Reject("update_trust", "trust_frozen")
    ELSE LET record == trust_records[actor_id]
             delta == new_score - record.score
             t1 == [trust_records EXCEPT ![actor_id].score = new_score]
             r1 == IF actor_id \in DOMAIN roster
                   THEN [roster EXCEPT ![actor_id].trust_score = new_score]
                   ELSE roster
             rec == RecordTrustEvent(Audit, actor_id, delta, writeFails)
         IN Finish("update_trust", rec,
                   [Here EXCEPT !.trust_records = t1, !.roster = r1],
                   Here, failAt)

\* TrustEngine.apply_inactivity_decay: the score of a record that has been
\* inactive for one more half-life
DecayedScore(score) == score \div 2

\* SkillDecayEngine.apply_decay: the proficiency of a profile (0: no
\* profile) not demonstrated for one more half-life
DecayedSkill(level) == level \div 2

\* GenesisService.decay_inactive_actors with a skill trust config loaded;
\* `stale` holds the actors whose record apply_inactivity_decay returns
\* decayed
decay_inactive_actors(stale, failAt) ==
    LET decayed == {a \in DOMAIN trust_records :
                       a \in stale /\ ~is_actor_on_leave(a)}
        t1 == [a \in DOMAIN trust_records |->
                  IF a \in decayed
                  THEN [trust_records[a] EXCEPT !.score = DecayedScore(@)]
                  ELSE trust_records[a]]
        r1 == [a \in DOMAIN roster |->
                  IF a \in decayed
                  THEN [roster[a] EXCEPT !.trust_score = t1[a].score]
                  ELSE roster[a]]
        p == SafePersist(r1, t1, missions, leave_records, failAt)
    IN IF decayed = {}
       THEN /\ result' = Ok("decay_inactive_actors", FALSE)
            /\ UNCHANGED <<roster, trust_records, missions, leave_records,
                           leave_counter, listings, bids, skill_profiles, reviewer_histories, events, event_ids, file, event_counter,
                           epoch, committed, previous_hash, epochs_opened,
                           persistence_degraded, store_mem, store_file, clock>>
       ELSE /\ store_mem' = p.mem
            /\ store_file' = p.disk
            /\ IF p.ok
               THEN /\ roster' = r1
                    /\ trust_records' = t1
                    /\ result' = Ok("decay_inactive_actors", FALSE)
               ELSE /\ UNCHANGED <<roster, trust_records>>
                    /\ result' = Fail("decay_inactive_actors",
                                      Except(PersistCatches, "snapshot", "persistence"))
            /\ UNCHANGED <<missions, leave_records, leave_counter, listings, bids, skill_profiles, reviewer_histories, events,
                           event_ids, file, event_counter, epoch, committed,
                           previous_hash, epochs_opened, persistence_degraded, clock>>

\* what the skill operations leave alone
skillUnchanged == <<roster, trust_records, missions, leave_records, leave_counter, listings, bids, reviewer_histories, events, event_ids, file, event_counter, epoch, committed, previous_hash, epochs_opened, persistence_degraded, clock>>

\* the end of the skill operations: _safe_persist over the profiles s1 the
\* operation has built, its rollback restoring the profiles it found
PersistSkills(op, s1, failAt) ==
    LET p == PersistState(store_mem, store_file,
                          [CurrentSnapshot(roster, trust_records, missions, leave_records)
                              EXCEPT !.skill_profiles = s1], failAt)
    IN /\ store_mem' = p.mem
       /\ store_file' = p.disk
       /\ IF p.ok
          THEN /\ skill_profiles' = s1
               /\ result' = Ok(op, FALSE)
          ELSE /\ UNCHANGED skill_profiles
               /\ result' = Fail(op, Except(PersistCatches, "snapshot", "persistence"))
       /\ UNCHANGED skillUnchanged

\* GenesisService.update_actor_skills with skills the taxonomy accepts:
\* the profile is created or merged, `level` is the proficiency it then
\* holds. Leave records are not consulted.
update_actor_skills(actor_id, level, failAt) ==
    IF actor_id \notin DOMAIN roster
    THEN Reject("update_actor_skills", "actor_not_found")
    ELSE PersistSkills("update_actor_skills", Put(skill_profiles, actor_id, level), failAt)

\* GenesisService.set_mission_skill_requirements with requirements the
\* taxonomy accepts: the requirements of a DRAFT mission are replaced and
\* the snapshot is written; no event is recorded and no epoch is needed.
\* The rollback of a failed write restores the requirements found.
set_mission_skill_requirements(mission_id, requirements, failAt) ==
    IF mission_id \notin DOMAIN missions
    THEN Reject("set_mission_skill_requirements", "not_found")
    ELSE IF missions[mission_id].state # "draft"
    THEN Reject("set_mission_skill_requirements", "not_draft")
    ELSE LET m1 == [missions EXCEPT ![mission_id].skill_requirements = requirements]
             p == SafePersist(roster, trust_records, m1, leave_records, failAt)
         IN /\ store_mem' = p.mem
            /\ store_file' = p.disk
            /\ IF p.ok
               THEN /\ missions' = m1
                    /\ result' = Ok("set_mission_skill_requirements", FALSE)
               ELSE /\ UNCHANGED missions
                    /\ result' = Fail("set_mission_skill_requirements",
                                      Except(PersistCatches, "snapshot", "persistence"))
            /\ UNCHANGED <<roster, trust_records, leave_records, leave_counter, listings, bids, skill_profiles, reviewer_histories, events, event_ids, file, event_counter, epoch, committed, previous_hash, epochs_opened, persistence_degraded, clock>>

\* GenesisService.endorse_skill; `boosted` is the proficiency
\* EndorsementEngine.endorse leaves the target's skill at, 0 when it
\* refuses the endorsement (self-endorsement is one of its refusals)
endorse_skill(endorser_id, target_id, boosted, failAt) ==
    IF endorser_id \notin DOMAIN skill_profiles
    THEN Reject("endorse_skill", "endorser_no_profile")
    ELSE IF endorser_id \notin DOMAIN trust_records
    THEN Reject("endorse_skill", "no_trust_record")
    ELSE IF target_id \notin DOMAIN skill_profiles
    THEN Reject("endorse_skill", "target_no_profile")
    ELSE IF endorser_id = target_id \/ boosted = 0
    THEN Reject("endorse_skill", "endorsement_refused")
    ELSE PersistSkills("endorse_skill",
                       [skill_profiles EXCEPT ![target_id] = boosted], failAt)

\* GenesisService.run_skill_decay(actor_id): over the profile of one actor,
\* or over every profile when actor_id is "all" (None); `stale` holds the
\* actors whose profile apply_decay returns with a decayed or pruned skill
\* (a profile at 0 has no skill left to decay)
run_skill_decay(actor_id, stale, failAt) ==
    IF actor_id # "all" /\ actor_id \notin DOMAIN skill_profiles
    THEN Reject("run_skill_decay", "no_profile")
    ELSE LET profiles_to_decay == IF actor_id = "all"
                                  THEN DOMAIN skill_profiles ELSE {actor_id}
             decayed == {a \in profiles_to_decay :
                            /\ skill_profiles[a] # 0
                            /\ a \in stale
                            /\ ~is_actor_on_leave(a)}
             s1 == [a \in DOMAIN skill_profiles |->
                       IF a \in decayed
                       THEN DecayedSkill(skill_profiles[a])
                       ELSE skill_profiles[a]]
         IN IF decayed = {}
            THEN /\ result' = Ok("run_skill_decay", FALSE)
                 /\ UNCHANGED <<skill_profiles, store_mem, store_file>>
                 /\ UNCHANGED skillUnchanged
            ELSE PersistSkills("run_skill_decay", s1, failAt)

\* ---------------------------------------------------------------- epochs
\* an open_epoch that starts a new epoch over the one that is open
open_epochNested(failAt) ==
    /\ epoch' = [state |-> "open", mission |-> <<>>, trust |-> <<>>]
    /\ epochs_opened' = epochs_opened + 1
    /\ SafePersistPostAudit(DomSnapshot(Here), failAt)
    /\ result' = OkAfterPersist("open_epoch", failAt, EmptyMap)
    /\ UNCHANGED <<roster, trust_records, missions, leave_records,
                   leave_counter, listings, bids, skill_profiles, reviewer_histories, events, event_ids, file, event_counter,
                   committed, previous_hash, clock>>

\* GenesisService.open_epoch
open_epoch(failAt) ==
    IF EpochIsOpen(epoch)
    THEN Reject("open_epoch", Except(EpochCatches, "already_open", "already_open"))
    ELSE /\ epoch' = [state |-> "open", mission |-> <<>>, trust |-> <<>>]
         /\ epochs_opened' = epochs_opened + 1
         /\ SafePersistPostAudit(DomSnapshot(Here), failAt)
         /\ result' = OkAfterPersist("open_epoch", failAt, EmptyMap)
         /\ UNCHANGED <<roster, trust_records, missions, leave_records,
                        leave_counter, listings, bids, skill_profiles, reviewer_histories, events, event_ids, file, event_counter,
                        committed, previous_hash, clock>>

\* a close_epoch that commits the record but does not advance previous_hash
close_epochUnchained(beacon_round, failAt) ==
    IF ~EpochIsOpen(epoch)
    THEN Reject("close_epoch", Except(EpochCatches, "not_open", "no_epoch"))
    ELSE LET this_hash == CommitmentHash(previous_hash, epoch, beacon_round)
             record == [previous_hash |-> previous_hash,
                        this_hash |-> this_hash,
                        beacon_round |-> beacon_round,
                        counts |-> EpochEventCounts(epoch)]
         IN /\ committed' = Append(committed, record)
            /\ previous_hash' = previous_hash
            /\ epoch' = [epoch EXCEPT !.state = "closed"]
            /\ SafePersistPostAudit(
                   Snapshot(roster, trust_records, missions, leave_records,
                            previous_hash, Len(committed) + 1), failAt)
            /\ result' = OkAfterPersist("close_epoch", failAt, EmptyMap)
            /\ UNCHANGED <<roster, trust_records, missions, leave_records,
                           leave_counter, listings, bids, skill_profiles, reviewer_histories, events, event_ids, file,
                           event_counter, epochs_opened, clock>>

\* a close_epoch that commits whatever the ledger holds, open epoch or not
close_epochUnguarded(beacon_round, failAt) ==
    LET this_hash == CommitmentHash(previous_hash, epoch, beacon_round)
        record == [previous_hash |-> previous_hash,
                   this_hash |-> this_hash,
                   beacon_round |-> beacon_round,
                   counts |-> EpochEventCounts(epoch)]
    IN /\ committed' = Append(committed, record)
       /\ previous_hash' = this_hash
       /\ epoch' = [epoch EXCEPT !.state = "closed"]
       /\ SafePersistPostAudit(
              Snapshot(roster, trust_records, missions, leave_records,
                       this_hash, Len(committed) + 1), failAt)
       /\ result' = OkAfterPersist("close_epoch", failAt, EmptyMap)
       /\ UNCHANGED <<roster, trust_records, missions, leave_records,
                      leave_counter, listings, bids, skill_profiles, reviewer_histories, events, event_ids, file,
                      event_counter, epochs_opened, clock>>

\* GenesisService.close_epoch; the result's data carries the service's
\* previous_hash as read after EpochService.close_epoch has returned
close_epoch(beacon_round, failAt) ==
    IF ~EpochIsOpen(epoch)
    THEN Reject("close_epoch", Except(EpochCatches, "not_open", "no_epoch"))
    ELSE LET this_hash == CommitmentHash(previous_hash, epoch, beacon_round)
             record == [previous_hash |-> previous_hash,
                        this_hash |-> this_hash,
                        beacon_round |-> beacon_round,
                        counts |-> EpochEventCounts(epoch)]
         IN /\ committed' = Append(committed, record)
            /\ previous_hash' = this_hash
            /\ epoch' = [epoch EXCEPT !.state = "closed"]
            /\ SafePersistPostAudit(
                   Snapshot(roster, trust_records, missions, leave_records,
                            this_hash, Len(committed) + 1), failAt)
            /\ result' = OkAfterPersist("close_epoch", failAt,
                                        [previous_hash |-> previous_hash'])
            /\ UNCHANGED <<roster, trust_records, missions, leave_records,
                           leave_counter, listings, bids, skill_profiles, reviewer_histories, events, event_ids, file,
                           event_counter, epochs_opened, clock>>

\* --------------------------------------------------------------- restart
\* a GenesisService exists: the last construction did not raise
ServiceOnline == ~(result.op = "restart" /\ ~result.success)

\* the process ends and EventLog(storage_path), StateStore(storage_path) and
\* GenesisService.__init__ run again over the event log file and the
\* snapshot file. A line of the log that cannot be loaded or a snapshot
\* that cannot be parsed raises out of the construction: no service exists
\* and the files stay as they are.
restart ==
    LET ld == EventLogLoad(file)
    IN IF ld.err = "none" /\ store_file.parseable
       THEN /\ roster' = store_file.roster
            /\ trust_records' = store_file.trust_records
            /\ missions' = store_file.missions
            /\ listings' = store_file.listings.listings
            /\ bids' = store_file.listings.bids
            /\ skill_profiles' = store_file.skill_profiles
            /\ reviewer_histories' = store_file.reviewer_histories
            /\ leave_records' = store_file.leave_records
            /\ leave_counter' = Cardinality(DOMAIN store_file.leave_records)
            /\ events' = ld.log.events
            /\ event_ids' = ld.log.event_ids
            /\ event_counter' = Len(ld.log.events)
            /\ epoch' = NoEpoch
            /\ committed' = <<>>
            /\ previous_hash' = store_file.epoch.previous_hash
            /\ persistence_degraded' = FALSE
            /\ store_mem' = store_file
            /\ result' = [InitResult EXCEPT !.op = "restart"]
            /\ UNCHANGED <<file, store_file, epochs_opened, clock>>
       ELSE /\ roster' = EmptyMap
            /\ trust_records' = EmptyMap
            /\ missions' = EmptyMap
            /\ listings' = EmptyMap
            /\ bids' = EmptyMap
            /\ skill_profiles' = EmptyMap
            /\ reviewer_histories' = EmptyMap
            /\ leave_records' = EmptyMap
            /\ leave_counter' = 0
            /\ events' = <<>>
            /\ event_ids' = {}
            /\ event_counter' = 0
            /\ epoch' = NoEpoch
            /\ committed' = <<>>
            /\ previous_hash' = GENESIS_PREVIOUS_HASH
            /\ persistence_degraded' = FALSE
            /\ store_mem' = store_file
            /\ result' = Fail("restart", IF ld.err # "none" THEN ld.err ELSE "decode")
            /\ UNCHANGED <<file, store_file, epochs_opened, clock>>

\* ------------------------------------------------------- protected leave
\* RosterEntry.is_available
is_available(entry) == entry.status \in {"active", "probation"}

\* CATEGORY_REQUIRED_DOMAINS
RequiredDomains(category) ==
    CASE category \in {"illness", "pregnancy"} -> {"healthcare"}
      [] category = "bereavement" -> {"social_services", "mental_health"}
      [] category \in {"disability", "death"} -> {"healthcare", "social_services"}
      [] category = "mental_health" -> {"mental_health", "healthcare"}
      [] category \in {"caregiver", "child_care"} -> {"social_services"}
      [] OTHER -> {}

\* a check_adjudicator_eligibility that lets the applicant sit on the panel
check_adjudicator_eligibilityAllowingSelf(adjudicator_id, entry, trust, category, applicant_id) ==
    /\ entry.actor_kind = "human"
    /\ is_available(entry)
    /\ trust.score >= MIN_ADJUDICATOR_TRUST
    /\ \E d \in RequiredDomains(category) \cap DOMAIN trust.domain_scores :
           trust.domain_scores[d].score >= MIN_DOMAIN_TRUST

\* LeaveAdjudicationEngine.check_adjudicator_eligibility
check_adjudicator_eligibility(adjudicator_id, entry, trust, category, applicant_id) ==
    /\ adjudicator_id # applicant_id
    /\ entry.actor_kind = "human"
    /\ is_available(entry)
    /\ trust.score >= MIN_ADJUDICATOR_TRUST
    /\ \E d \in RequiredDomains(category) \cap DOMAIN trust.domain_scores :
           trust.domain_scores[d].score >= MIN_DOMAIN_TRUST

CountVerdict(adjudications, v) ==
    Cardinality({i \in 1..Len(adjudications) : adjudications[i].verdict = v})

\* an evaluate_quorum that counts every vote cast toward the quorum
evaluate_quorumCountingAbstain(record) ==
    LET approve == CountVerdict(record.adjudications, "approve")
        reached == Len(record.adjudications) >= MIN_QUORUM
    IN [quorum_reached |-> reached,
        approved |-> reached /\ approve >= MIN_APPROVE_TO_GRANT]

\* LeaveAdjudicationEngine.evaluate_quorum
evaluate_quorum(record) ==
    LET approve == CountVerdict(record.adjudications, "approve")
        deny == CountVerdict(record.adjudications, "deny")
        reached == approve + deny >= MIN_QUORUM
    IN [quorum_reached |-> reached,
        approved |-> reached /\ approve >= MIN_APPROVE_TO_GRANT]

\* a check_adjudicator_diversity that looks at organisations only
check_adjudicator_diversityOrganizationsOnly(record, r) ==
    LET voters == {record.adjudications[i].adjudicator_id :
                      i \in {j \in 1..Len(record.adjudications) :
                                record.adjudications[j].verdict # "abstain"}}
        known == voters \cap DOMAIN r
    IN /\ known # {}
       /\ Cardinality({r[a].organization : a \in known}) < MIN_ORGANIZATIONS

\* LeaveAdjudicationEngine.check_adjudicator_diversity over the roster
\* entries of the non-abstaining adjudicators: TRUE when there are violations
check_adjudicator_diversity(record, r) ==
    LET voters == {record.adjudications[i].adjudicator_id :
                      i \in {j \in 1..Len(record.adjudications) :
                                record.adjudications[j].verdict # "abstain"}}
        known == voters \cap DOMAIN r
    IN /\ known # {}
       /\ \/ Cardinality({r[a].organization : a \in known}) < MIN_ORGANIZATIONS
          \/ Cardinality({r[a].region : a \in known}) < MIN_REGIONS

\* LeaveAdjudicationEngine.check_anti_gaming within one cooldown window and
\* one year of logical time: TRUE when there are violations
check_anti_gaming(actor_id, l) ==
    LET mine == {n \in DOMAIN l : l[n].actor_id = actor_id}
    IN \/ \E n \in mine :
             /\ l[n].state \in {"returned", "memorialised", "active", "approved"}
             /\ (l[n].returned_utc # 0 \/ l[n].approved_utc # 0)
       \/ Cardinality({n \in mine : l[n].state # "denied"}) >= MAX_LEAVES_PER_YEAR

NewLeaveRecord(actor_id, category, now) ==
    [actor_id |-> actor_id, category |-> category, state |-> "pending",
     adjudications |-> <<>>, requested_utc |-> now, approved_utc |-> 0,
     denied_utc |-> 0, returned_utc |-> 0, pre_leave_status |-> "none",
     trust_score_at_freeze |-> -1, petitioner_id |-> "none",
     memorialised_utc |-> 0, granted_duration_days |-> 0]

\* GenesisService.request_leave
request_leave(actor_id, category, writeFails, failAt) ==
    IF actor_id \notin DOMAIN roster
    THEN Reject("request_leave", "not_found")
    ELSE IF roster[actor_id].actor_kind # "human"
    THEN Reject("request_leave", "not_human")
    ELSE IF category = "death"
    THEN Reject("request_leave", "death")
    ELSE IF ~is_available(roster[actor_id])
    THEN Reject("request_leave", "unavailable")
    ELSE IF check_anti_gaming(actor_id, leave_records)
    THEN Reject("request_leave", "anti_gaming")
    ELSE LET n == leave_counter + 1
             record == NewLeaveRecord(actor_id, category, clock + 1)
             rec == RecordLeaveEvent(Audit, n, actor_id, "requested", writeFails)
         IN Finish("request_leave", rec,
                   [Here EXCEPT !.leave_records = Put(leave_records, n, record),
                                !.leave_counter = n],
                   [Here EXCEPT !.leave_records = Drop(Put(leave_records, n, record), n)],
                   failAt)

\* leave_duration_config: the categories with a duration limit, in days
\* (0: unlimited)
MaxDurationDays(category) ==
    IF category \in {"pregnancy", "child_care"} THEN 365 ELSE 0

\* GenesisService._activate_leave: the domain state with the leave active
ActivateLeave(d, n, now) ==
    LET record == d.leave_records[n]
        actor_id == record.actor_id
        hasEntry == actor_id \in DOMAIN d.roster
        hasTrust == actor_id \in DOMAIN d.trust_records
        r1 == [record EXCEPT
                 !.pre_leave_status =
                     IF hasEntry THEN d.roster[actor_id].status ELSE @,
                 !.trust_score_at_freeze =
                     IF hasTrust THEN d.trust_records[actor_id].score ELSE @,
                 !.state = "active",
                 !.approved_utc = now,
                 !.granted_duration_days = MaxDurationDays(record.category)]
    IN [d EXCEPT !.leave_records[n] = r1,
                 !.roster = IF hasEntry
                            THEN [d.roster EXCEPT ![actor_id].status = "on_leave"]
                            ELSE d.roster]

\* GenesisService._undo_leave_activation
UndoLeaveActivation(d, n, old_state, old_approved_utc, old_adjudications) ==
    LET record == d.leave_records[n]
        actor_id == record.actor_id
        pre_status == record.pre_leave_status
        r1 == [record EXCEPT !.state = old_state,
                             !.approved_utc = old_approved_utc,
                             !.adjudications = old_adjudications,
                             !.trust_score_at_freeze = -1,
                             !.granted_duration_days = 0,
                             !.pre_leave_status = "none"]
    IN [d EXCEPT !.leave_records[n] = r1,
                 !.roster = IF actor_id \in DOMAIN d.roster
                            THEN [d.roster EXCEPT ![actor_id].status =
                                     IF pre_status # "none" THEN pre_status
                                     ELSE "active"]
                            ELSE d.roster]

\* GenesisService._memorialise_account: the domain state with the account
\* sealed
MemorialiseAccount(d, n, now) ==
    LET record == d.leave_records[n]
        actor_id == record.actor_id
        hasEntry == actor_id \in DOMAIN d.roster
        hasTrust == actor_id \in DOMAIN d.trust_records
        r1 == [record EXCEPT
                 !.pre_leave_status =
                     IF hasEntry THEN d.roster[actor_id].status ELSE @,
                 !.trust_score_at_freeze =
                     IF hasTrust THEN d.trust_records[actor_id].score ELSE @,
                 !.state = "memorialised",
                 !.approved_utc = now,
                 !.memorialised_utc = now]
    IN [d EXCEPT !.leave_records[n] = r1,
                 !.roster = IF hasEntry
                            THEN [d.roster EXCEPT ![actor_id].status = "memorialised"]
                            ELSE d.roster]

\* GenesisService._undo_memorialisation
UndoMemorialisation(d, n, old_state, old_approved_utc, old_adjudications) ==
    LET record == d.leave_records[n]
        actor_id == record.actor_id
        pre_status == record.pre_leave_status
        r1 == [record EXCEPT !.state = old_state,
                             !.approved_utc = old_approved_utc,
                             !.memorialised_utc = 0,
                             !.adjudications = old_adjudications,
                             !.trust_score_at_freeze = -1,
                             !.pre_leave_status = "none"]
    IN [d EXCEPT !.leave_records[n] = r1,
                 !.roster = IF actor_id \in DOMAIN d.roster
                            THEN [d.roster EXCEPT ![actor_id].status =
                                     IF pre_status # "none" THEN pre_status
                                     ELSE "active"]
                            ELSE d.roster]

\* the tail of adjudicate_leave once the "adjudicated" event is committed:
\* d1 holds the new adjudication, a1 the audit state after the first event
AdjudicateOutcome(d1, a1, n, now, writeFails2) ==
    LET old == leave_records[n]
        record == d1.leave_records[n]
        q == evaluate_quorum(record)
    IN IF ~q.quorum_reached
       THEN [d |-> d1, a |-> a1, err |-> "none"]
       ELSE IF q.approved
       THEN IF check_adjudicator_diversity(record, d1.roster)
            THEN [d |-> d1, a |-> a1, err |-> "none"]
            ELSE IF record.category = "death"
            THEN LET d2 == MemorialiseAccount(d1, n, now)
                     rec == RecordLeaveEvent(a1, n, record.actor_id,
                                             "memorialised", writeFails2)
                 IN IF rec.err # "none"
                    THEN [d |-> UndoMemorialisation(d2, n, old.state,
                                    old.approved_utc, old.adjudications),
                          a |-> rec.a, err |-> rec.err]
                    ELSE [d |-> d2, a |-> rec.a, err |-> "none"]
            ELSE LET d2 == ActivateLeave(d1, n, now)
                     rec == RecordLeaveEvent(a1, n, record.actor_id,
                                             "approved", writeFails2)
                 IN IF rec.err # "none"
                    THEN [d |-> UndoLeaveActivation(d2, n, old.state,
                                    old.approved_utc, old.adjudications),
                          a |-> rec.a, err |-> rec.err]
                    ELSE [d |-> d2, a |-> rec.a, err |-> "none"]
       ELSE LET d2 == [d1 EXCEPT !.leave_records[n].state = "denied",
                                 !.leave_records[n].denied_utc = now]
                rec == RecordLeaveEvent(a1, n, record.actor_id,
                                        "denied", writeFails2)
            IN IF rec.err # "none"
               THEN [d |-> [d2 EXCEPT
                              !.leave_records[n].state = old.state,
                              !.leave_records[n].denied_utc = old.denied_utc,
                              !.leave_records[n].adjudications = old.adjudications],
                     a |-> rec.a, err |-> rec.err]
               ELSE [d |-> d2, a |-> rec.a, err |-> "none"]

\* the duplicate vote check of adjudicate_leave
HasVoted(record, adjudicator_id) ==
    \E i \in 1..Len(record.adjudications) :
        record.adjudications[i].adjudicator_id = adjudicator_id

\* an adjudicate_leave that never enforces max_adjudicators
AdjudicateNewVoteUncapped(n, adjudicator_id, verdict, writeFails1, writeFails2, failAt) ==
    IF adjudicator_id \notin DOMAIN roster
    THEN Reject("adjudicate_leave", "adjudicator_not_found")
    ELSE IF adjudicator_id \notin DOMAIN trust_records
    THEN Reject("adjudicate_leave", "no_trust_record")
    ELSE IF ~check_adjudicator_eligibility(adjudicator_id, roster[adjudicator_id],
                 trust_records[adjudicator_id], leave_records[n].category,
                 leave_records[n].actor_id)
    THEN Reject("adjudicate_leave", "ineligible")
    ELSE LET now == clock + 1
             adjudication == [adjudicator_id |-> adjudicator_id, verdict |-> verdict]
             d1 == [Here EXCEPT !.leave_records[n].adjudications =
                                    Append(@, adjudication)]
             rec1 == RecordLeaveEvent(Audit, n, leave_records[n].actor_id,
                                      "adjudicated", writeFails1)
         IN IF rec1.err # "none"
            THEN Finish("adjudicate_leave", rec1, d1, Here, failAt)
            ELSE LET out == AdjudicateOutcome(d1, rec1.a, n, now, writeFails2)
                 IN Finish("adjudicate_leave", [a |-> out.a, err |-> out.err],
                           out.d, out.d, failAt)

\* adjudicate_leave past the duplicate vote check: the cap and eligibility
\* checks, the adjudication and its outcome
AdjudicateNewVote(n, adjudicator_id, verdict, writeFails1, writeFails2, failAt) ==
    IF Len(leave_records[n].adjudications) >= MAX_ADJUDICATORS
    THEN Reject("adjudicate_leave", "cap_reached")
    ELSE IF adjudicator_id \notin DOMAIN roster
    THEN Reject("adjudicate_leave", "adjudicator_not_found")
    ELSE IF adjudicator_id \notin DOMAIN trust_records
    THEN Reject("adjudicate_leave", "no_trust_record")
    ELSE IF ~check_adjudicator_eligibility(adjudicator_id, roster[adjudicator_id],
                 trust_records[adjudicator_id], leave_records[n].category,
                 leave_records[n].actor_id)
    THEN Reject("adjudicate_leave", "ineligible")
    ELSE LET now == clock + 1
             adjudication == [adjudicator_id |-> adjudicator_id, verdict |-> verdict]
             d1 == [Here EXCEPT !.leave_records[n].adjudications =
                                    Append(@, adjudication)]
             rec1 == RecordLeaveEvent(Audit, n, leave_records[n].actor_id,
                                      "adjudicated", writeFails1)
         IN IF rec1.err # "none"
            THEN Finish("adjudicate_leave", rec1, d1, Here, failAt)
            ELSE LET out == AdjudicateOutcome(d1, rec1.a, n, now, writeFails2)
                 IN Finish("adjudicate_leave", [a |-> out.a, err |-> out.err],
                           out.d, out.d, failAt)

\* an adjudicate_leave without the duplicate vote check
adjudicate_leaveRevoting(n, adjudicator_id, verdict, writeFails1, writeFails2, failAt) ==
    IF n \notin DOMAIN leave_records
    THEN Reject("adjudicate_leave", "not_found")
    ELSE IF leave_records[n].state # "pending"
    THEN Reject("adjudicate_leave", "not_pending")
    ELSE IF /\ leave_records[n].category = "death"
            /\ leave_records[n].actor_id \in DOMAIN roster
            /\ roster[leave_records[n].actor_id].status = "memorialised"
    THEN Reject("adjudicate_leave", "already_memorialised")
    ELSE AdjudicateNewVote(n, adjudicator_id, verdict, writeFails1, writeFails2, failAt)

\* GenesisService.adjudicate_leave
adjudicate_leave(n, adjudicator_id, verdict, writeFails1, writeFails2, failAt) ==
    IF n \notin DOMAIN leave_records
    THEN Reject("adjudicate_leave", "not_found")
    ELSE IF leave_records[n].state # "pending"
    THEN Reject("adjudicate_leave", "not_pending")
    ELSE IF /\ leave_records[n].category = "death"
            /\ leave_records[n].actor_id \in DOMAIN roster
            /\ roster[leave_records[n].actor_id].status = "memorialised"
    THEN Reject("adjudicate_leave", "already_memorialised")
    ELSE IF HasVoted(leave_records[n], adjudicator_id)
    THEN Reject("adjudicate_leave", "already_voted")
    ELSE AdjudicateNewVote(n, adjudicator_id, verdict, writeFails1, writeFails2, failAt)

\* GenesisService.petition_memorialisation
petition_memorialisation(actor_id, petitioner_id, writeFails, failAt) ==
    IF actor_id \notin DOMAIN roster
    THEN Reject("petition_memorialisation", "not_found")
    ELSE IF roster[actor_id].actor_kind # "human"
    THEN Reject("petition_memorialisation", "not_human")
    ELSE IF roster[actor_id].status = "memorialised"
    THEN Reject("petition_memorialisation", "already_memorialised")
    ELSE IF \E n \in DOMAIN leave_records :
                /\ leave_records[n].actor_id = actor_id
                /\ leave_records[n].category = "death"
                /\ leave_records[n].state \in {"pending", "active", "memorialised"}
    THEN Reject("petition_memorialisation", "duplicate_petition")
    ELSE IF petitioner_id \notin DOMAIN roster
    THEN Reject("petition_memorialisation", "petitioner_not_found")
    ELSE IF petitioner_id = actor_id
    THEN Reject("petition_memorialisation", "self_petition")
    ELSE IF roster[petitioner_id].actor_kind # "human"
    THEN Reject("petition_memorialisation", "petitioner_not_human")
    ELSE LET n == leave_counter + 1
             record == [NewLeaveRecord(actor_id, "death", clock + 1)
                           EXCEPT !.petitioner_id = petitioner_id]
             rec == RecordLeaveEvent(Audit, n, actor_id, "requested", writeFails)
         IN Finish("petition_memorialisation", rec,
                   [Here EXCEPT !.leave_records = Put(leave_records, n, record),
                                !.leave_counter = n],
                   [Here EXCEPT !.leave_records = Drop(Put(leave_records, n, record), n)],
                   failAt)

\* a return that always makes the actor ACTIVE
ReturnOutcomeToActive(d, a, n, writeFails) ==
    LET now == a.clock + 1
        record == d.leave_records[n]
        actor_id == record.actor_id
        hasEntry == actor_id \in DOMAIN d.roster
        hasTrust == actor_id \in DOMAIN d.trust_records
        old_last_active == IF hasTrust
                           THEN d.trust_records[actor_id].last_active_utc ELSE 0
        restored == "active"
        touched(t) == [t EXCEPT
                         !.last_active_utc = now,
                         !.domain_scores =
                             [x \in DOMAIN @ |-> [@[x] EXCEPT !.last_active_utc = now]]]
        good == [d EXCEPT
                   !.leave_records[n].state = "returned",
                   !.leave_records[n].returned_utc = now,
                   !.roster = IF hasEntry
                              THEN [d.roster EXCEPT ![actor_id].status = restored]
                              ELSE d.roster,
                   !.trust_records =
                       IF hasTrust
                       THEN [d.trust_records EXCEPT ![actor_id] = touched(@)]
                       ELSE d.trust_records]
        \* the rollback restores last_active_utc only when the old value
        \* is not None; the per-domain timestamps are restored always
        bad == [d EXCEPT
                  !.trust_records =
                      IF hasTrust /\ old_last_active = 0
                      THEN [d.trust_records EXCEPT ![actor_id].last_active_utc = now]
                      ELSE d.trust_records]
        rec == RecordLeaveEvent(a, n, actor_id, "returned", writeFails)
    IN [d |-> IF rec.err = "none" THEN good ELSE bad, a |-> rec.a, err |-> rec.err]

\* return_from_leave past its state checks, on the domain state d and the
\* audit state a: the transition and its "returned" event, undone when the
\* event cannot be recorded
ReturnOutcome(d, a, n, writeFails) ==
    LET now == a.clock + 1
        record == d.leave_records[n]
        actor_id == record.actor_id
        hasEntry == actor_id \in DOMAIN d.roster
        hasTrust == actor_id \in DOMAIN d.trust_records
        old_last_active == IF hasTrust
                           THEN d.trust_records[actor_id].last_active_utc ELSE 0
        restored == IF record.pre_leave_status \in
                          {"active", "quarantined", "decommissioned",
                           "probation", "on_leave", "memorialised"}
                    THEN record.pre_leave_status ELSE "active"
        touched(t) == [t EXCEPT
                         !.last_active_utc = now,
                         !.domain_scores =
                             [x \in DOMAIN @ |-> [@[x] EXCEPT !.last_active_utc = now]]]
        good == [d EXCEPT
                   !.leave_records[n].state = "returned",
                   !.leave_records[n].returned_utc = now,
                   !.roster = IF hasEntry
                              THEN [d.roster EXCEPT ![actor_id].status = restored]
                              ELSE d.roster,
                   !.trust_records =
                       IF hasTrust
                       THEN [d.trust_records EXCEPT ![actor_id] = touched(@)]
                       ELSE d.trust_records]
        \* the rollback restores last_active_utc only when the old value
        \* is not None; the per-domain timestamps are restored always
        bad == [d EXCEPT
                  !.trust_records =
                      IF hasTrust /\ old_last_active = 0
                      THEN [d.trust_records EXCEPT ![actor_id].last_active_utc = now]
                      ELSE d.trust_records]
        rec == RecordLeaveEvent(a, n, actor_id, "returned", writeFails)
    IN [d |-> IF rec.err = "none" THEN good ELSE bad, a |-> rec.a, err |-> rec.err]

\* the transition of return_from_leave, past its state checks
ReturnTransition(n, writeFails, failAt) ==
    LET out == ReturnOutcome(Here, Audit, n, writeFails)
    IN Finish("return_from_leave", [a |-> out.a, err |-> out.err],
              out.d, out.d, failAt)

\* a return_from_leave that accepts a record in any state
return_from_leaveAnyState(n, writeFails, failAt) ==
    IF n \notin DOMAIN leave_records
    THEN Reject("return_from_leave", "not_found")
    ELSE ReturnTransition(n, writeFails, failAt)

\* GenesisService.return_from_leave
return_from_leave(n, writeFails, failAt) ==
    IF n \notin DOMAIN leave_records
    THEN Reject("return_from_leave", "not_found")
    ELSE IF leave_records[n].state = "memorialised"
    THEN Reject("return_from_leave", "memorialised")
    ELSE IF leave_records[n].state # "active"
    THEN Reject("return_from_leave", "not_active")
    ELSE ReturnTransition(n, writeFails, failAt)

\* LeaveAdjudicationEngine.check_leave_expiry: an active leave with a
\* duration limit whose expiry lies before now; `due` holds the records
\* approved longer ago than any limit
check_leave_expiry(record, n, due) ==
    /\ record.state = "active"
    /\ record.granted_duration_days # 0
    /\ n \in due

\* the loop of check_leave_expiries from record k on: d and a are the domain
\* and audit state so far, st the StateStore and the degraded flag, errs the
\* errors of the returns that failed. Each return_from_leave that succeeds
\* ends with its own _safe_persist_post_audit over the state it leaves.
\* how is [due, failing, unsaved, failAt]
RECURSIVE SweepFrom(_, _, _, _, _, _)
SweepFrom(k, d, a, st, errs, how) ==
    IF k > leave_counter
    THEN [d |-> d, a |-> a, st |-> st, errs |-> errs]
    ELSE IF k \notin DOMAIN d.leave_records
            \/ ~check_leave_expiry(d.leave_records[k], k, how.due)
    THEN SweepFrom(k + 1, d, a, st, errs, how)
    ELSE LET saved(p) == [mem |-> p.mem, disk |-> p.disk,
                          degraded |-> st.degraded \/ ~p.ok]
             returned(out) ==
                 IF out.err = "none"
                 THEN SweepFrom(k + 1, out.d, out.a,
                                saved(PersistState(st.mem, st.disk, DomSnapshot(out.d),
                                                   IF k \in how.unsaved THEN how.failAt ELSE 0)),
                                errs, how)
                 ELSE SweepFrom(k + 1, out.d, out.a, st, Append(errs, out.err), how)
         IN returned(ReturnOutcome(d, a, k, IF k \in how.failing THEN WriteRefused ELSE 0))

\* GenesisService.check_leave_expiries: return_from_leave on every expired
\* leave, in the order of the records; the appends of the records in
\* `failing` fail, the snapshot writes that follow the returns of the
\* records in `unsaved` fail at failAt. The warnings of the returns are
\* dropped: the result carries the errors and the expired leaves only.
check_leave_expiries(due, failing, unsaved, failAt) ==
    LET out == SweepFrom(1, Here, Audit,
                         [mem |-> store_mem, disk |-> store_file,
                          degraded |-> persistence_degraded], <<>>,
                         [due |-> due, failing |-> failing,
                          unsaved |-> unsaved, failAt |-> failAt])
    IN /\ SetAudit(out.a)
       /\ SetDomain(out.d)
       /\ store_mem' = out.st.mem
       /\ store_file' = out.st.disk
       /\ persistence_degraded' = out.st.degraded
       /\ result' = IF out.errs = <<>>
                    THEN Ok("check_leave_expiries", FALSE)
                    ELSE Fail("check_leave_expiries", out.errs[1])
       /\ UNCHANGED <<committed, previous_hash, epochs_opened>>

\* ------------------------------------------------- the EventLog on its own
\* what an EventLog used on its own leaves alone
serviceVars == <<roster, trust_records, missions, leave_records, leave_counter, listings, bids, skill_profiles, reviewer_histories,
                 event_counter, epoch, committed, previous_hash, epochs_opened,
                 persistence_degraded, store_mem, store_file, clock>>

\* the records the callers create: EventRecord.create over the input sets
LogEvents ==
    {EventRecordCreate(id, "mission_created", "alice", p, 1) :
        id \in LogIds, p \in LogPayloads}

\* an EventLog object exists: the last constructor call did not raise
LogOnline == ~(result.op = "recover" /\ ~result.success)

\* EventLog.append on the file-backed log; ValueError and OSError reach the
\* caller as the error of the call
append(event, writeFails) ==
    LET ap == EventLogAppend([events |-> events, event_ids |-> event_ids,
                              file |-> file], event, writeFails)
    IN /\ events' = ap.log.events
       /\ event_ids' = ap.log.event_ids
       /\ file' = ap.log.file
       /\ result' = IF ap.err = "none"
                    THEN Ok("append", FALSE) ELSE Fail("append", ap.err)
       /\ UNCHANGED serviceVars

\* EventLog(storage_path) over the file as it is now: a fresh log
recover ==
    LET ld == EventLogLoad(file)
    IN /\ events' = ld.log.events
       /\ event_ids' = ld.log.event_ids
       /\ result' = IF ld.err = "none"
                    THEN Ok("recover", FALSE) ELSE Fail("recover", ld.err)
       /\ UNCHANGED file
       /\ UNCHANGED serviceVars

\* EventRecord.create(event_id, event_kind, actor_id, payload, timestamp_utc)
\* called by itself on a payload whose keys the caller inserted in the order
\* `inserted`; the records made so far are kept in events
create(event_id, event_kind, actor_id, payload, inserted, timestamp_utc) ==
    /\ events' = Append(events, EventRecordCreateFrom(event_id, event_kind, actor_id,
                             payload, inserted, FormatTimestamp(timestamp_utc)))
    /\ result' = Ok("create", FALSE)
    /\ UNCHANGED <<event_ids, file>>
    /\ UNCHANGED serviceVars

\* someone rewrites the payload of line i of the file, leaving its hash
tamper(i, p) ==
    /\ ~LineUnparseable(file[i])
    /\ p # file[i].payload
    /\ file' = [file EXCEPT ![i].payload = p]
    /\ result' = Ok("tamper", FALSE)
    /\ UNCHANGED <<events, event_ids>>
    /\ UNCHANGED serviceVars

\* someone writes line i of the file once more at the end of the file,
\* which ends with a newline
replay(i) ==
    /\ ~LineUnparseable(file[i])
    /\ "newline" \notin DOMAIN file[Len(file)]
    /\ file' = Append(file, file[i])
    /\ result' = Ok("replay", FALSE)
    /\ UNCHANGED <<events, event_ids>>
    /\ UNCHANGED serviceVars

\* ------------------------------------------------------------------ Next
RegisterActor ==
    \E a \in RegisterIds, failAt \in PersistFailPoints : register_actor(a, failAt)

CreateMission ==
    /\ clock < MaxClock
    /\ \E m \in MissionIds, w \in RegisterIds, wf \in 0..WriteRefused,
          failAt \in PersistFailPoints :
          create_mission(m, "documentation_update", w, wf, failAt)

SubmitMission ==
    /\ clock < MaxClock
    /\ \E m \in MissionIds, wf \in 0..WriteRefused, failAt \in PersistFailPoints :
          submit_mission(m, wf, failAt)

AddEvidence ==
    \E m \in MissionIds :
        /\ m \in DOMAIN missions => missions[m].evidence < MaxEvidence
        /\ add_evidence(m)

UpdateTrust ==
    /\ clock < MaxClock
    /\ \E a \in RegisterIds, q \in ScoreInputs, wf \in 0..WriteRefused,
          failAt \in PersistFailPoints : update_trust(a, q, wf, failAt)

OpenEpoch ==
    /\ epochs_opened < MaxEpochs
    /\ \E failAt \in PersistFailPoints : open_epoch(failAt)

CloseEpoch ==
    \E b \in {42}, failAt \in PersistFailPoints : close_epoch(b, failAt)


RequestLeave ==
    /\ clock < MaxLeaveClock
    /\ leave_counter < MaxLeaves
    /\ \E a \in Applicants, c \in LeaveCategories, wf \in 0..WriteRefused,
          failAt \in PersistFailPoints : request_leave(a, c, wf, failAt)

AdjudicateLeave ==
    /\ clock + 1 < MaxLeaveClock
    /\ \E n \in 1..MaxLeaves, a \in Adjudicators, v \in Verdicts,
          wf1 \in 0..WriteRefused, wf2 \in 0..WriteRefused, failAt \in PersistFailPoints :
          adjudicate_leave(n, a, v, wf1, wf2, failAt)

ReturnFromLeave ==
    /\ clock < MaxLeaveClock
    /\ \E n \in 1..MaxLeaves, wf \in 0..WriteRefused, failAt \in PersistFailPoints :
          return_from_leave(n, wf, failAt)

\* the audited mutators, the unaudited ones and the epoch lifecycle, with
\* append and snapshot failures
Next ==
    \/ RegisterActor
    \/ CreateMission
    \/ SubmitMission
    \/ AddEvidence
    \/ UpdateTrust
    \/ OpenEpoch
    \/ CloseEpoch
    \/ \E m \in MissionIds, failAt \in PersistFailPoints :
          set_mission_skill_requirements(m, <<"software:python">>, failAt)

Spec == Init /\ [][Next]_vars

\* the same service across process restarts
SpecRestart ==
    Init /\ [][
        \/ ServiceOnline /\ RegisterActor
        \/ ServiceOnline /\ CreateMission
        \/ ServiceOnline /\ SubmitMission
        \/ ServiceOnline /\ OpenEpoch
        \/ /\ ServiceOnline
           /\ \E m \in MissionIds, failAt \in PersistFailPoints :
                 set_mission_skill_requirements(m, <<"software:python">>, failAt)
        \/ /\ ServiceOnline
           /\ \E a \in RegisterIds : register_actor(a, NumSections + 1)
        \/ /\ ServiceOnline
           /\ clock < MaxClock
           /\ \E m \in MissionIds, w \in RegisterIds, wf \in {WriteTorn, WriteNoNewline} :
                 create_mission(m, "documentation_update", w, wf, 0)
        \/ restart
    ]_vars

\* GenesisService.__init__ over a snapshot that also holds the actor w1,
\* registered and never active since
InitRegistered ==
    /\ roster = [a \in Actors |-> IF a \in Adjudicators
                                  THEN AdjudicatorEntry(a) ELSE NewRosterEntry]
    /\ trust_records = [a \in Actors |-> IF a \in Adjudicators
                                         THEN AdjudicatorTrust(a) ELSE NewTrustRecord]
    /\ missions = EmptyMap
    /\ leave_records = EmptyMap
    /\ leave_counter = 0
    /\ listings = EmptyMap
    /\ bids = EmptyMap
    /\ skill_profiles = EmptyMap
    /\ reviewer_histories = EmptyMap
    /\ events = <<>>
    /\ event_ids = {}
    /\ file = <<>>
    /\ event_counter = 0
    /\ epoch = NoEpoch
    /\ committed = <<>>
    /\ previous_hash = GENESIS_PREVIOUS_HASH
    /\ epochs_opened = 0
    /\ persistence_degraded = FALSE
    /\ store_mem = Snapshot(roster, trust_records, EmptyMap, EmptyMap,
                            GENESIS_PREVIOUS_HASH, 0)
    /\ store_file = store_mem
    /\ clock = 0
    /\ result = InitResult

\* the protected-leave lifecycle of the registered applicant
SpecLeave ==
    InitRegistered /\ [][
        \/ OpenEpoch
        \/ RequestLeave
        \/ AdjudicateLeave
        \/ ReturnFromLeave
    ]_vars

\* GenesisService.__init__ over a snapshot that holds the applicant w1 and
\* a panel of four adjudicators: d1 and d4 of one organisation and region,
\* d2 sharing one of the two with them, d3 sharing neither
PanelEntry(d, posting) ==
    CASE d \in {"d1", "d4"} ->
             [AdjudicatorEntry(d) EXCEPT !.region = "EU",
                                         !.organization = "Hospital-A"]
      [] d = "d2" ->
             [AdjudicatorEntry(d) EXCEPT !.region = posting.region,
                                         !.organization = posting.organization]
      [] OTHER -> AdjudicatorEntry(d)

InitPanel ==
    /\ \E posting \in PanelPostings :
           roster = [a \in Panel \cup RegisterIds |->
                        IF a \in Panel THEN PanelEntry(a, posting)
                        ELSE NewRosterEntry]
    /\ trust_records = [a \in Panel \cup RegisterIds |->
                           IF a \in Panel THEN AdjudicatorTrust(a)
                           ELSE NewTrustRecord]
    /\ missions = EmptyMap
    /\ leave_records = EmptyMap
    /\ leave_counter = 0
    /\ listings = EmptyMap
    /\ bids = EmptyMap
    /\ skill_profiles = EmptyMap
    /\ reviewer_histories = EmptyMap
    /\ events = <<>>
    /\ event_ids = {}
    /\ file = <<>>
    /\ event_counter = 0
    /\ epoch = NoEpoch
    /\ committed = <<>>
    /\ previous_hash = GENESIS_PREVIOUS_HASH
    /\ epochs_opened = 0
    /\ persistence_degraded = FALSE
    /\ store_mem = Snapshot(roster, trust_records, EmptyMap, EmptyMap,
                            GENESIS_PREVIOUS_HASH, 0)
    /\ store_file = store_mem
    /\ clock = 0
    /\ result = InitResult

\* the leave operations before the panel, over a StateStore whose writes
\* succeed: the audit append is the only step that may fail
PanelOpenEpoch ==
    /\ epochs_opened < MaxEpochs
    /\ open_epoch(0)

\* the leave operations of the lean specifications, over a StateStore whose
\* writes succeed: the audit append is the only step that may fail, when
\* `failures` holds TRUE. maxClock bounds the event hashes computed and
\* maxRecords the records filed.
FileLeave(maxClock, maxRecords, categories, failures) ==
    /\ clock < maxClock
    /\ leave_counter < maxRecords
    /\ \E a \in Applicants, c \in categories, wf \in failures :
          request_leave(a, c, wf, 0)

FilePetition(maxClock, maxRecords, petitioners, failures) ==
    /\ clock < maxClock
    /\ leave_counter < maxRecords
    /\ \E a \in Applicants, p \in petitioners, wf \in failures :
          petition_memorialisation(a, p, wf, 0)

\* a call on a record in another state is rejected before any hash is
\* computed, so the clock bound does not apply to it
AdjudicateFiled(maxClock, maxRecords, panel, verdicts, failures) ==
    \E n \in 1..maxRecords, a \in panel, v \in verdicts,
       wf1 \in failures, wf2 \in failures :
        /\ IF n \in DOMAIN leave_records
           THEN leave_records[n].state = "pending" => clock + 1 < maxClock
           ELSE TRUE
        /\ adjudicate_leave(n, a, v, wf1, wf2, 0)

ReturnFiled(maxClock, maxRecords, failures) ==
    \E n \in 1..maxRecords, wf \in failures :
        /\ IF n \in DOMAIN leave_records
           THEN leave_records[n].state = "active" => clock < maxClock
           ELSE TRUE
        /\ return_from_leave(n, wf, 0)

\* one leave request or memorialisation petition before a panel of four
SpecPanel ==
    InitPanel /\ [][
        \/ PanelOpenEpoch
        \/ FileLeave(MaxLeaveClock, MaxLeaves, LeaveCategories, 0..WriteRefused)
        \/ FilePetition(MaxLeaveClock, MaxLeaves, {"d1", "w1"}, 0..WriteRefused)
        \/ AdjudicateFiled(MaxLeaveClock, MaxLeaves, Panel, Verdicts, 0..WriteRefused)
        \/ ReturnFiled(MaxLeaveClock, MaxLeaves, 0..WriteRefused)
    ]_vars

\* the sweep over the records that are due; with a fail point the snapshot
\* writes behind some of the returns fail
CheckLeaveExpiries(maxClock, failPoints) ==
    \E due \in SUBSET (1..MaxRecords), unsaved \in SUBSET (1..MaxRecords),
       failAt \in failPoints :
        /\ unsaved \subseteq due
        /\ (failAt = 0) = (unsaved = {})
        /\ clock + Cardinality(due) <= maxClock
        /\ check_leave_expiries(due, {}, unsaved, failAt)

\* leave requests and a memorialisation petition for the same actor
SpecMemorial ==
    InitRegistered /\ [][
        \/ PanelOpenEpoch
        \/ FileLeave(MaxMemorialClock, MaxRecords, {"pregnancy"}, {0})
        \/ FilePetition(MaxMemorialClock, MaxRecords, {"d1"}, {0})
        \/ AdjudicateFiled(MaxMemorialClock, MaxRecords, Adjudicators,
                           {"approve"}, {0})
        \/ ReturnFiled(MaxMemorialClock, MaxRecords, {0})
        \/ CheckLeaveExpiries(MaxMemorialClock, {0})
    ]_vars

\* GenesisService.__init__ over a snapshot in which the applicant has earned
\* trust and holds a skill profile
InitFreeze ==
    /\ roster = [a \in Actors |->
                    IF a \in Adjudicators THEN AdjudicatorEntry(a)
                    ELSE [NewRosterEntry EXCEPT !.trust_score = 2]]
    /\ trust_records = [a \in Actors |->
                           IF a \in Adjudicators THEN AdjudicatorTrust(a)
                           ELSE [NewTrustRecord EXCEPT !.score = 2]]
    /\ missions = EmptyMap
    /\ leave_records = EmptyMap
    /\ leave_counter = 0
    /\ listings = EmptyMap
    /\ bids = EmptyMap
    /\ skill_profiles = [a \in Applicants |-> 2]
    /\ reviewer_histories = EmptyMap
    /\ events = <<>>
    /\ event_ids = {}
    /\ file = <<>>
    /\ event_counter = 0
    /\ epoch = NoEpoch
    /\ committed = <<>>
    /\ previous_hash = GENESIS_PREVIOUS_HASH
    /\ epochs_opened = 0
    /\ persistence_degraded = FALSE
    /\ store_mem = Snapshot(roster, trust_records, EmptyMap, EmptyMap,
                            GENESIS_PREVIOUS_HASH, 0)
    /\ store_file = store_mem
    /\ clock = 0
    /\ result = InitResult

\* the operations that move trust and skills, on the applicant; a trust
\* update refused for an actor on leave computes no hash
FreezeUpdateTrust ==
    \E a \in Applicants, q \in ScoreInputs :
        /\ ~is_actor_on_leave(a) => clock < MaxClock
        /\ update_trust(a, q, 0, 0)

DecayInactiveActors ==
    \E stale \in SUBSET Applicants : decay_inactive_actors(stale, 0)

\* the decay of every profile, of the applicant's, and of an actor who has
\* none
RunSkillDecay ==
    \E actor_id \in {"all", "d1"} \cup Applicants, stale \in SUBSET Applicants :
        run_skill_decay(actor_id, stale, 0)

\* trust updates, decay sweeps, skill updates, endorsements and a second
\* registration of the applicant around a leave or a memorialisation
SpecFreeze ==
    InitFreeze /\ [][
        \/ PanelOpenEpoch
        \/ FileLeave(MaxFreezeClock, MaxLeaves, LeaveCategories, {0})
        \/ FilePetition(MaxFreezeClock, MaxLeaves, {"d1"}, {0})
        \/ AdjudicateFiled(MaxFreezeClock, MaxLeaves, Adjudicators,
                           {"approve"}, {0})
        \/ ReturnFiled(MaxFreezeClock, MaxLeaves, {0})
        \/ FreezeUpdateTrust
        \/ DecayInactiveActors
        \/ RunSkillDecay
        \/ \E a \in Applicants : update_actor_skills(a, 2, 0)
        \/ \E endorser_id \in {"w1"}, target_id \in Applicants :
              endorse_skill(endorser_id, target_id, 2, 0)
        \/ \E a \in Applicants : register_actor(a, 0)
    ]_vars

\* the audited mutators and the epoch lifecycle over the registered actor
SpecAudit ==
    InitRegistered /\ [][
        \/ CreateMission
        \/ SubmitMission
        \/ UpdateTrust
        \/ OpenEpoch
        \/ \E m \in MissionIds, failAt \in PersistFailPoints :
              set_mission_skill_requirements(m, <<"software:python">>, failAt)
        \/ CloseEpoch
    ]_vars

\* the epoch lifecycle with audited events, across process restarts
SpecEpoch ==
    InitRegistered /\ [][
        \/ CreateMission
        \/ OpenEpoch
        \/ \E m \in MissionIds, failAt \in PersistFailPoints :
              set_mission_skill_requirements(m, <<"software:python">>, failAt)
        \/ CloseEpoch
        \/ restart
    ]_vars

LogAppend ==
    /\ LogOnline
    /\ \E e \in LogEvents, wf \in 0..WriteNoNewline : append(e, wf)


TamperLine ==
    /\ LogOnline
    /\ \E i \in 1..Len(file), p \in LogPayloads : tamper(i, p)

ReplayLine ==
    /\ LogOnline
    /\ Len(file) < MaxLines
    /\ \E i \in 1..Len(file) : replay(i)

\* a file-backed EventLog used on its own, with write failures, recovery
\* from the file, and a file that is rewritten behind the log's back
SpecLog ==
    Init /\ [][
        \/ LogAppend
        \/ recover
        \/ TamperLine
        \/ ReplayLine
    ]_vars

\* EventRecord.create applied to every combination of its arguments
SpecCreate ==
    Init /\ [][
        \/ /\ Len(events) < MaxCreated
           /\ \E id \in LogIds, k \in {"mission_created", "trust_updated"}, a \in {"alice", "bob"},
                 p \in CreatePayloads, ts \in [second : 1..2, microsecond : {0, 500}] :
                 \E inserted \in KeyOrders(p) : create(id, k, a, p, inserted, ts)
    ]_vars

\* ================================================================ claims
\* the public operations of GenesisService that change domain state
MutatingOps ==
    {"register_actor", "quarantine_actor", "update_actor_skills",
     "set_mission_skill_requirements", "endorse_skill", "run_skill_decay",
     "create_listing", "open_listing", "start_accepting_bids", "submit_bid",
     "withdraw_bid", "evaluate_and_allocate", "cancel_listing",
     "create_mission", "submit_mission", "assign_reviewers", "submit_review",
     "add_evidence", "complete_review", "approve_mission",
     "human_gate_approve", "human_gate_reject", "update_trust",
     "decay_inactive_actors", "request_leave", "adjudicate_leave",
     "return_from_leave", "petition_memorialisation", "check_leave_expiries",
     "assess_quality"}

\* the errors of the checks an operation makes on its arguments and on the
\* state it finds, before it records anything
ValidationErrors ==
    {"exists", "not_found", "illegal_transition", "trust_frozen", "not_human",
     "death", "unavailable", "anti_gaming", "not_pending", "already_voted",
     "already_memorialised", "cap_reached", "adjudicator_not_found",
     "no_trust_record", "ineligible", "memorialised", "not_active",
     "self_petition", "petitioner_not_found", "petitioner_not_human",
     "duplicate_petition", "actor_not_found", "invalid_verdict", "not_draft",
     "insufficient_candidates", "diversity", "constitutional_flow",
     "not_terminal", "no_worker", "no_profile", "endorser_no_profile",
     "target_no_profile", "endorsement_refused", "creator_not_found",
     "not_accepting_bids", "worker_not_found", "worker_unavailable",
     "trust_below_minimum", "duplicate_bid", "max_bids", "bid_not_found",
     "not_withdrawable", "wrong_state", "no_bids", "allocation_failed",
     "mission_exists"}

\* C1: every public operation that changes domain state and returns success
\* has appended at least one EventRecord to the EventLog.
C1_SuccessfulMutationAppendsEvent ==
    [][(/\ result'.success
        /\ result'.op \in MutatingOps
        /\ <<roster, trust_records, missions, leave_records>>' #
               <<roster, trust_records, missions, leave_records>>)
       => Len(events') > Len(events)]_vars

\* C2: in every reachable state, with append and snapshot failures injected,
\* each audited mutation is present in memory if and only if its event is
\* in the EventLog and its hash is in the epoch ledger: a leave record is
\* there exactly when its "requested" event is audited, and it holds as many
\* adjudications as there are audited "adjudicated" events for it.
C2_MemoryAgreesWithAudit ==
    LET
        \* the hashes the open epoch's ledger holds
        LedgerHashes ==
            Range(epoch.mission) \cup Range(epoch.trust)
        \* the events of a kind recorded for leave n whose hash the ledger holds
        AuditedLeaveEvents(n, kind) ==
            {i \in 1..Len(events) :
                /\ events[i].event_kind = kind
                /\ events[i].payload.data[1] = ToString(n)
                /\ events[i].payload.event_hash \in LedgerHashes}
    IN
        \A n \in 1..MaxLeaves :
            /\ n \in DOMAIN leave_records <=> AuditedLeaveEvents(n, "leave_requested") # {}
            /\ Cardinality(AuditedLeaveEvents(n, "leave_adjudicated")) =
                   IF n \in DOMAIN leave_records
                   THEN Len(leave_records[n].adjudications) ELSE 0

\* C3: a mutating operation called while no epoch is open fails, with the
\* no-open-epoch error unless an argument check rejected it first, and
\* leaves the EventLog, the epoch ledger and the domain state unchanged.
C3_NoEpochFailsClosed ==
    [][(~EpochIsOpen(epoch) /\ result'.op \in MutatingOps)
       => /\ ~result'.success
          /\ result'.error \in {"no_epoch"} \cup ValidationErrors
          /\ UNCHANGED <<domainVars, logVars, ledgerVars>>]_vars

\* C4: EventLog.append is all-or-nothing: when the durable write fails the
\* error surfaces and neither the in-memory sequence, the seen-id set nor
\* the count retains the record.
C4_AppendAllOrNothing ==
    [][(result'.error = "event_log" /\ file' = file)
       => /\ events' = events
          /\ event_ids' = event_ids
          /\ Len(events') = Len(events)]_vars

\* C5: when the durable append fails during a mutating operation, the
\* operation fails and every in-memory change it attempted is restored to
\* its pre-operation value.
C5_FailedAppendRestoresMemory ==
    [][result'.error = "event_log"
       => ~result'.success /\ UNCHANGED domainVars]_vars

\* C6: once an event is durably appended and its hash is in the ledger, the
\* mutation it describes is retained through the rest of the operation: an
\* audited "adjudicated" event of a step comes with its adjudication.
C6_AuditedMutationRetained ==
    [][\A i \in (Len(file) + 1)..Len(file') :
          (/\ file'[i].event_kind = "leave_adjudicated"
           /\ file'[i].payload.event_hash \in Range(epoch'.mission))
          => \E n \in DOMAIN leave_records \cap DOMAIN leave_records' :
                /\ ToString(n) = file'[i].payload.data[1]
                /\ Len(leave_records'[n].adjudications) =
                       Len(leave_records[n].adjudications) + 1]_vars

\* C7: a failed durable append never leaves an epoch ledger entry: after an
\* operation that failed on the event log, epoch_event_counts() is what it
\* was, and within an open epoch the ledger grows exactly by the events
\* durably appended.
C7_FailedAppendLeavesNoLedgerEntry ==
    [][/\ result'.error = "event_log"
          => EpochEventCounts(epoch') = EpochEventCounts(epoch)
       /\ (EpochIsOpen(epoch) /\ EpochIsOpen(epoch'))
          => (Len(epoch'.mission) + Len(epoch'.trust))
                 - (Len(epoch.mission) + Len(epoch.trust))
             = Len(file') - Len(file)]_vars

\* C7 witness: a trust update whose append failed, the record kept only in
\* memory, under an open epoch whose trust bucket is empty
C7_Witness ==
    /\ result.op = "update_trust"
    /\ result.error = "event_log"
    /\ EpochIsOpen(epoch)
    /\ Len(events) > Len(file)
    /\ EpochEventCounts(epoch).trust = 0

\* C8: a newly assigned event_id never equals an event_id already in the
\* durable log, across failed appends and restarts: while a service exists,
\* the id its counter assigns next is not the id of a record in the file.
C8_NextEventIdIsFresh ==
    ServiceOnline
    => \A i \in 1..Len(file) :
          ~LineUnparseable(file[i]) => file[i].event_id # event_counter + 1

\* C9: once the audit event of an operation is committed, a failing snapshot
\* write neither fails the operation nor rolls anything back: the call
\* succeeds, the mutation and the logged event remain, and when the snapshot
\* is left stale the result carries the warning and persistence_degraded is
\* set.
C9_PostAuditSnapshotFailureIsNonFatal ==
    [][LET
        \* the mutation an audited operation made is in memory after the step
        RetainedBy(op) ==
            LET e == file'[Len(file')]
            IN CASE op = "create_mission" ->
                      e.payload.data[1] \in DOMAIN missions' \ DOMAIN missions
                 [] op = "submit_mission" ->
                      /\ e.payload.data[1] \in DOMAIN missions \cap DOMAIN missions'
                      /\ missions[e.payload.data[1]].state = "draft"
                      /\ missions'[e.payload.data[1]].state = "submitted"
                 [] op = "update_trust" ->
                      /\ e.actor_id \in DOMAIN trust_records \cap DOMAIN trust_records'
                      /\ ToString(trust_records'[e.actor_id].score
                                    - trust_records[e.actor_id].score) = e.payload.data[2]
                      /\ roster'[e.actor_id].trust_score = trust_records'[e.actor_id].score
                 [] OTHER -> FALSE
       IN
       Len(file') > Len(file)
       => /\ result'.success
          /\ events'[Len(events')] = file'[Len(file')]
          /\ RetainedBy(result'.op)
          /\ result'.warning => persistence_degraded'
          /\ store_file' # Snapshot(roster', trust_records', missions',
                                    leave_records', previous_hash', Len(committed'))
             => result'.warning /\ persistence_degraded']_vars

\* C9 witness: create_mission succeeded with a warning; the mission and its
\* event are there, the snapshot file does not hold the mission
C9_Witness ==
    /\ result.op = "create_mission"
    /\ result.success /\ result.warning
    /\ persistence_degraded
    /\ "m1" \in DOMAIN missions
    /\ "m1" \notin DOMAIN store_file.missions
    /\ \E i \in 1..Len(file) : file[i].payload.data = <<"m1", "created">>

\* the public operations that write the snapshot: every mutator but
\* add_evidence, and the two epoch calls
SnapshotWritingOps ==
    (MutatingOps \ {"add_evidence"}) \cup {"open_epoch", "close_epoch"}

\* C10 (as stated): persistence_degraded stays true until the next
\* successful snapshot write, after which it is reported false.
C10_ClearedBySuccessfulWrite ==
    [][(/\ result'.op \in SnapshotWritingOps
        /\ result'.success
        /\ ~result'.warning)
       => ~persistence_degraded']_vars

\* C10 (amended): after a post-audit snapshot write fails, status reports
\* persistence_degraded true, and it stays true for the rest of the
\* process lifetime: no later snapshot write clears it, only a restart does.
C10_DegradedIsSticky ==
    [][/\ result'.warning => persistence_degraded'
       /\ (persistence_degraded /\ result'.op # "restart")
          => persistence_degraded']_vars

\* C10 witness: a later operation wrote the snapshot successfully, the file
\* is in sync with memory, and the flag is still set
C10_Witness ==
    LET
        \* the snapshot file holds the state that is in memory
        SnapshotInSync ==
            store_file = CurrentSnapshot(roster, trust_records, missions, leave_records)
    IN
        /\ persistence_degraded
        /\ result.op \in SnapshotWritingOps
        /\ result.success /\ ~result.warning
        /\ store_mem = store_file
        /\ SnapshotInSync

\* s is an initial segment of t
IsPrefix(s, t) == Len(s) <= Len(t) /\ \A i \in 1..Len(s) : t[i] = s[i]

\* the EventLog as it is now
CurrentLog == [events |-> events, event_ids |-> event_ids, file |-> file]

\* C11: appending a record whose event_id has already been appended always
\* fails with the duplicate-id error, whether or not the file can be written,
\* and the failed call leaves the log's length, contents and file unchanged.
C11_DuplicateAppendRejected ==
    /\ [](\A e \in LogEvents, wf \in 0..WriteNoNewline :
             e.event_id \in event_ids
             => EventLogAppend(CurrentLog, e, wf)
                    = [log |-> CurrentLog, err |-> "duplicate"])
    /\ [][result'.op = "append"
          => /\ result'.error = "duplicate" => UNCHANGED logVars
             /\ events' # events
                => events'[Len(events')].event_id \notin event_ids]_vars

\* an append was refused as a duplicate by a log that holds records on file
C11_Witness ==
    /\ result.op = "append"
    /\ result.error = "duplicate"
    /\ Len(file) >= 1
    /\ Len(events) = Len(file)

\* C12: the EventLog is append-only: an append never alters, reorders or
\* removes a record, count never decreases, and the earlier contents are a
\* prefix of the later ones, in memory and in the backing file; recovery
\* reads the file without writing it.
C12_AppendOnly ==
    [][LET
        \* the text of line l is the beginning of the text of line k: the
        \* same line, or l had no newline and k is l with more text behind
        Begins(l, k) ==
            \/ k = l
            \/ /\ "newline" \in DOMAIN l
               /\ LineUnparseable(k)
               /\ \A x \in DOMAIN l \ {"newline", "event_kind"} : k[x] = l[x]
        \* the text of the file f is the beginning of the text of the file g
        TextIsPrefix(f, g) ==
            /\ Len(f) <= Len(g)
            /\ \A i \in 1..(Len(f) - 1) : g[i] = f[i]
            /\ Len(f) > 0 => Begins(f[Len(f)], g[Len(f)])
       IN
       /\ result'.op = "append"
          => /\ IsPrefix(events, events')
             /\ TextIsPrefix(file, file')
             /\ Len(events') >= Len(events)
             /\ event_ids \subseteq event_ids'
       /\ result'.op = "recover" => file' = file]_vars

\* a second record was appended behind a first one, in memory and on file
C12_Witness ==
    /\ result.op = "append"
    /\ result.success
    /\ Len(events) >= 2
    /\ Len(file) >= 2
    /\ events = file

\* C13: for any N records successfully appended to a file-backed EventLog, a
\* fresh EventLog constructed from that file holds the identical ordered
\* sequence of records and the identical count.
C13_RecoveryRoundTrip ==
    [][LET
        Readable(l) == ~LineUnparseable(l)
        \* the records json.loads reads from the lines of the file
        Records(f) == [i \in 1..Len(f) |-> EventOfLine(f[i])]
        \* the record is one of the readable lines of the file
        OnFile(e) ==
            \E i \in 1..Len(file) : Readable(file[i]) /\ EventOfLine(file[i]) = e
        \* the file holds what the log wrote and no one else: its readable
        \* lines are the records of the log whose text reached the file, in
        \* the log's order, any other line being what a failed write left
        FileAsWritten ==
            Records(SelectSeq(file, Readable)) = SelectSeq(events, OnFile)
       IN
       (result'.op = "recover" /\ FileAsWritten)
       => /\ result'.success
          /\ events' = Records(file)
          /\ Len(events') = Len(file)
          /\ event_ids' = {file[i].event_id : i \in 1..Len(file)}
          /\ events = Records(file) => events' = events]_vars

\* C14: recovery recomputes every stored record's hash from its own fields;
\* if a record at any position of the file has a payload that no longer
\* matches its stored event_hash, recovery fails and brings no log online
\* instead of dropping the line, and the failure is the integrity violation
\* whenever that line is the first that recovery cannot accept.
C14_TamperedRecordAbortsRecovery ==
    [][(result'.op = "recover" /\ \E i \in 1..Len(file) : LineTampered(file, i))
       => /\ ~result'.success
          /\ events' = <<>>
          /\ event_ids' = {}
          /\ result'.error \in {"integrity", "replay", "decode"}
          /\ LET b == FirstBadLine(file)
             IN (~LineUnparseable(file[b]) /\ ~LineReplayed(file, b))
                => result'.error = "integrity"]_vars

\* recovery failed on a file whose last line, and no other, was tampered
C14_Witness ==
    /\ result.op = "recover"
    /\ result.error = "integrity"
    /\ Len(file) >= 2
    /\ LineTampered(file, Len(file))
    /\ \A i \in 1..(Len(file) - 1) : ~LineTampered(file, i)
    /\ events = <<>>

\* C15: if the backing file contains two records with the same event_id,
\* recovery fails fatally and no log is brought online; the failure is the
\* replay detection whenever the repeated line is the first that recovery
\* cannot accept.
C15_ReplayedRecordAbortsRecovery ==
    [][(result'.op = "recover" /\ \E i \in 1..Len(file) : LineReplayed(file, i))
       => /\ ~result'.success
          /\ events' = <<>>
          /\ event_ids' = {}
          /\ result'.error \in {"integrity", "replay", "decode"}
          /\ LineReplayed(file, FirstBadLine(file))
             => result'.error = "replay"]_vars

\* recovery failed on a file of untampered lines, one of them repeated
C15_Witness ==
    /\ result.op = "recover"
    /\ result.error = "replay"
    /\ \E i \in 1..Len(file) : LineReplayed(file, i)
    /\ \A i \in 1..Len(file) : ~LineTampered(file, i)
    /\ events = <<>>

\* C16: the commitment records form a linear hash chain: over any sequence
\* of epochs opened and closed in turn, three or more, each record's
\* previous_hash is the this_hash of the record committed just before it,
\* the first record's previous_hash is the genesis constant, and the
\* service's previous_hash is the this_hash of the last record.
C16_CommitmentsFormHashChain ==
    /\ Len(committed) >= 1
       => committed[1].previous_hash = GENESIS_PREVIOUS_HASH
    /\ \A i \in 2..Len(committed) :
           committed[i].previous_hash = committed[i - 1].this_hash
    /\ previous_hash = IF committed = <<>>
                       THEN GENESIS_PREVIOUS_HASH
                       ELSE committed[Len(committed)].this_hash

\* three epochs were closed in turn, one of them with audited events in it
C16_Witness ==
    /\ Len(committed) >= 3
    /\ \E i \in 1..Len(committed) : committed[i].counts.mission >= 1
    /\ result.op = "close_epoch"
    /\ result.success

\* C17: previous_hash survives process restarts: after any sequence of
\* epoch closes, those whose snapshot write failed included, a restart from
\* the same storage leaves the service with the this_hash of the last
\* CommitmentRecord produced before it, or with the genesis constant if no
\* epoch was ever closed.
C17_PreviousHashSurvivesRestart ==
    [][result'.op = "restart"
       => /\ previous_hash' = previous_hash
          /\ committed # <<>>
             => previous_hash' = committed[Len(committed)].this_hash]_vars

\* C18: the epoch ledger moves only none -> open -> closed -> open; a closed
\* epoch takes no further hash and the committed records never change; while
\* no epoch is open every mutating call fails, with the no-open-epoch error
\* unless an argument check rejected it first, and changes nothing; events
\* recorded after a close are counted in the epoch opened after it.
C18_EpochLifecycle ==
    [][/\ epoch'.state # epoch.state
          => <<epoch.state, epoch'.state>> \in
                 {<<"none", "open">>, <<"open", "closed">>, <<"closed", "open">>}
       /\ (epoch.state = "closed" /\ epoch' # epoch)
          => /\ result'.op = "open_epoch"
             /\ EpochEventCounts(epoch') = [mission |-> 0, trust |-> 0]
       /\ IsPrefix(committed, committed')
       /\ (~EpochIsOpen(epoch) /\ result'.op \in MutatingOps)
          => /\ ~result'.success
             /\ result'.error \in {"no_epoch"} \cup ValidationErrors
             /\ UNCHANGED domainVars
       /\ Len(file') > Len(file)
          => /\ EpochIsOpen(epoch) /\ EpochIsOpen(epoch')
             /\ (Len(epoch'.mission) + Len(epoch'.trust))
                    - (Len(epoch.mission) + Len(epoch.trust))
                = Len(file') - Len(file)]_vars

\* C19: open_epoch called while an epoch is open fails, and leaves the open
\* epoch, the hashes it has accumulated and the committed records unchanged.
C19_NoNestedEpochs ==
    [][(result'.op = "open_epoch" /\ EpochIsOpen(epoch))
       => /\ ~result'.success
          /\ result'.error = "already_open"
          /\ UNCHANGED <<epoch, committed, previous_hash, epochs_opened>>]_vars

\* open_epoch was refused over an open epoch that holds a hash, after an
\* earlier epoch had been committed
C19_Witness ==
    /\ result.op = "open_epoch"
    /\ ~result.success
    /\ EpochIsOpen(epoch)
    /\ Len(epoch.mission) + Len(epoch.trust) >= 1
    /\ Len(committed) >= 1

\* C20: close_epoch called while no epoch is open, none opened yet or the
\* last one closed already, fails without producing a CommitmentRecord and
\* without changing previous_hash or the committed records.
C20_CloseWithoutOpenFails ==
    [][(result'.op = "close_epoch" /\ ~EpochIsOpen(epoch))
       => /\ ~result'.success
          /\ result'.error = "no_epoch"
          /\ UNCHANGED <<epoch, committed, previous_hash>>]_vars

\* close_epoch was refused after the last epoch had been closed already
C20_Witness ==
    /\ result.op = "close_epoch"
    /\ ~result.success
    /\ epoch.state = "closed"
    /\ Len(committed) >= 1
    /\ previous_hash = committed[Len(committed)].this_hash

\* C21: the result of a successful close_epoch exposes as previous_hash the
\* hash the closed epoch was chained to (the prior commitment's this_hash, or
\* the genesis constant for the first epoch), not the this_hash of the epoch
\* just closed.
C21_CloseResultExposesPriorHash ==
    [][(result'.op = "close_epoch" /\ result'.success)
       => /\ result'.data.previous_hash = previous_hash
          /\ result'.data.previous_hash
                 = committed'[Len(committed')].previous_hash]_vars

\* C22: every mutating call returns a success/failure result that carries
\* an error when it failed, and no exception leaves the service, whatever
\* fails inside the call: a duplicate event id, an EventLog write error, a
\* snapshot write error, an epoch already open or none open.
C22_NoExceptionEscapes ==
    /\ result.error # "exception"
    /\ result.success \in BOOLEAN
    /\ result.success <=> result.error = "none"
    /\ result.warning => result.success

\* after a restart the service drew an event id the log already held, and
\* the call came back as a failure result
C22_Witness ==
    /\ result.op = "create_mission"
    /\ result.error = "event_log"
    /\ \E i \in 1..Len(file) : file[i].event_id = event_counter
    /\ events = file

\* the five fields of a record the hash is computed over
HashedFields(e) ==
    <<e.event_id, e.event_kind, e.timestamp_utc, e.actor_id, e.payload>>

\* two records of the log differ in their payload only, one holding as a
\* tuple what the other holds as a list
TupleAgainstList(i, j) ==
    /\ "refs" \in DOMAIN events[i].payload
    /\ "refs" \in DOMAIN events[j].payload
    /\ events[i].payload.refs.type = "tuple"
    /\ events[j].payload.refs.type = "list"
    /\ events[i].payload.refs.items = events[j].payload.refs.items
    /\ [events[i] EXCEPT !.payload = events[j].payload] = events[j]

\* C23 as stated: for fixed (event_id, kind, actor_id, payload, timestamp)
\* every call of EventRecord.create yields the same event_hash, which is
\* the hash a later process recomputes from the record's line, and two
\* records have the same hash exactly when they agree in all five fields.
C23_HashIsCanonical ==
    /\ \A i \in 1..Len(events) :
           events[i].event_hash = LineHash(LineOf(events[i]))
    /\ \A i, j \in 1..Len(events) :
           (events[i].event_hash = events[j].event_hash)
               <=> (HashedFields(events[i]) = HashedFields(events[j]))

\* C23, amended: every call of EventRecord.create on the same five fields
\* yields the same event_hash, in whatever order the keys of the payload
\* were inserted, and it is the hash a later process recomputes from the
\* record's line; two records have the same hash exactly when their five
\* fields are the same once written as JSON and read back, so that records
\* whose payloads differ only in a tuple against a list share their hash.
C23_HashIsCanonicalJson ==
    /\ \A i \in 1..Len(events) :
           events[i].event_hash = LineHash(LineOf(events[i]))
    /\ \A i, j \in 1..Len(events) :
           /\ (events[i].event_hash = events[j].event_hash)
                  <=> (HashedFields(LineOf(events[i])) = HashedFields(LineOf(events[j])))
           /\ TupleAgainstList(i, j) => events[i].event_hash = events[j].event_hash

\* a record with a tuple and a record with the list of the same items were
\* created, alike in everything else, and have the same hash
C23_Witness ==
    /\ result.op = "create"
    /\ Len(events) = 2
    /\ TupleAgainstList(1, 2)
    /\ events[1].event_hash = events[2].event_hash

\* --------------------------------------------------------------------------
\* C24: over any sequence of leave operations a leave record, once filed,
\* stays on file and changes state only along pending -> active,
\* pending -> denied, pending -> memorialised and active -> returned;
\* adjudicate_leave when no record is pending and return_from_leave when no
\* record is active fail and change nothing, so denied, returned and
\* memorialised are terminal.
C24_LeaveStateMachine ==
    [][LET
        \* the state changes LeaveState admits on one record
        LeaveTransitions ==
            {<<"pending", "active">>, <<"pending", "denied">>,
             <<"pending", "memorialised">>, <<"active", "returned">>}
        \* a rejected call: a failure result and the service state as it was
        RejectedUnchanged ==
            /\ ~result'.success
            /\ UNCHANGED <<domainVars, logVars, ledgerVars, event_counter,
                           store_mem, store_file, persistence_degraded>>
       IN
       /\ \A n \in DOMAIN leave_records :
             /\ n \in DOMAIN leave_records'
             /\ \/ leave_records'[n].state = leave_records[n].state
                \/ <<leave_records[n].state, leave_records'[n].state>>
                       \in LeaveTransitions
       /\ \A n \in DOMAIN leave_records' \ DOMAIN leave_records :
             leave_records'[n].state = "pending"
       /\ (/\ result'.op = "adjudicate_leave"
           /\ \A n \in DOMAIN leave_records : leave_records[n].state # "pending")
          => RejectedUnchanged
       /\ (/\ result'.op = "return_from_leave"
           /\ \A n \in DOMAIN leave_records : leave_records[n].state # "active")
          => RejectedUnchanged]_vars

\* a returned leave on which a further adjudication was refused
C24_Witness ==
    /\ 1 \in DOMAIN leave_records
    /\ leave_records[1].state = "returned"
    /\ result.op = "adjudicate_leave"
    /\ result.error = "not_pending"

\* --------------------------------------------------------------------------
\* the votes on a record that are not abstentions
NonAbstain(record) ==
    {i \in 1..Len(record.adjudications) :
        record.adjudications[i].verdict # "abstain"}

Approvals(record) ==
    {i \in 1..Len(record.adjudications) :
        record.adjudications[i].verdict = "approve"}

\* C27: a leave record leaves pending only in an adjudicate_leave after
\* which its votes other than abstentions number at least MIN_QUORUM; it
\* then becomes active or memorialised exactly when its approvals number
\* at least MIN_APPROVE_TO_GRANT, and denied otherwise.
C27_QuorumDecides ==
    [][LET
        \* the records that were pending before a step and are not after it
        LeftPending ==
            {n \in DOMAIN leave_records :
                /\ leave_records[n].state = "pending"
                /\ leave_records'[n].state # "pending"}
       IN
       \A n \in LeftPending :
          /\ result'.op = "adjudicate_leave"
          /\ Cardinality(NonAbstain(leave_records'[n])) >= MIN_QUORUM
          /\ IF Cardinality(Approvals(leave_records'[n])) >= MIN_APPROVE_TO_GRANT
             THEN leave_records'[n].state \in {"active", "memorialised"}
             ELSE leave_records'[n].state = "denied"]_vars

\* a leave granted by two approvals against one denial, one adjudicator
\* having abstained
C27_Witness ==
    /\ 1 \in DOMAIN leave_records
    /\ leave_records[1].state = "active"
    /\ Len(leave_records[1].adjudications) = 4
    /\ Cardinality(NonAbstain(leave_records[1])) = 3
    /\ Cardinality(Approvals(leave_records[1])) = 2

\* --------------------------------------------------------------------------
\* C28: a leave is activated or memorialised only when the adjudicators
\* who did not abstain span MIN_ORGANIZATIONS organisations and MIN_REGIONS
\* regions; a successful adjudication that completes an approving quorum
\* leaves the record pending when they do not, and activates or
\* memorialises it when they do.
C28_DiversityGatesActivation ==
    [][LET
        \* the adjudicators behind the votes that are not abstentions
        Voters(record) ==
            {record.adjudications[i].adjudicator_id : i \in NonAbstain(record)}
        \* the voters come from enough organisations and enough regions
        Diverse(record, r) ==
            /\ Cardinality({r[a].organization : a \in Voters(record)}) >= MIN_ORGANIZATIONS
            /\ Cardinality({r[a].region : a \in Voters(record)}) >= MIN_REGIONS
       IN
       \A n \in DOMAIN leave_records :
          LET after == leave_records'[n]
              granted == after.state \in {"active", "memorialised"}
          IN leave_records[n].state = "pending" =>
               /\ granted => Diverse(after, roster')
               /\ (/\ result'.op = "adjudicate_leave"
                   /\ result'.success
                   /\ after.adjudications # leave_records[n].adjudications
                   /\ Cardinality(NonAbstain(after)) >= MIN_QUORUM
                   /\ Cardinality(Approvals(after)) >= MIN_APPROVE_TO_GRANT)
                  => IF Diverse(after, roster') THEN granted
                     ELSE after.state = "pending"]_vars

\* three approvals from one region or one organisation left the record
\* pending; the vote of d3, from elsewhere, activated it
C28_Witness ==
    /\ 1 \in DOMAIN leave_records
    /\ leave_records[1].state = "active"
    /\ Len(leave_records[1].adjudications) = 4
    /\ Cardinality(Approvals(leave_records[1])) = 4
    /\ leave_records[1].adjudications[4].adjudicator_id = "d3"

\* --------------------------------------------------------------------------
\* C30: no adjudicator is recorded more than once on a leave record; an
\* adjudicate_leave by an adjudicator already recorded on that record
\* fails, whatever its verdict and whether or not its writes would succeed,
\* and leaves every leave record as it was.
C30_OneVotePerAdjudicator ==
    /\ [](\A n \in DOMAIN leave_records :
             \A i, j \in 1..Len(leave_records[n].adjudications) :
                 leave_records[n].adjudications[i].adjudicator_id
                     = leave_records[n].adjudications[j].adjudicator_id
                 => i = j)
    /\ [][\/ /\ ~result'.success
              /\ leave_records' = leave_records
           \/ \A n \in DOMAIN leave_records, a \in Panel :
                 HasVoted(leave_records[n], a) =>
                     \A v \in Verdicts, wf1 \in 0..WriteRefused, wf2 \in 0..WriteRefused :
                         ~adjudicate_leave(n, a, v, wf1, wf2, 0)]_vars

\* a second vote by d1 on a record still pending was refused
C30_Witness ==
    /\ 1 \in DOMAIN leave_records
    /\ leave_records[1].state = "pending"
    /\ HasVoted(leave_records[1], "d1")
    /\ result.op = "adjudicate_leave"
    /\ result.error = "already_voted"

\* --------------------------------------------------------------------------
\* C26: a memorialised account is never reactivated: once the roster status
\* of an actor is memorialised it is memorialised in every later state, and
\* a death record that is memorialised stays memorialised, whatever leave
\* operation is called.
C26_MemorialisedIsPermanent ==
    [][/\ \A a \in DOMAIN roster :
             roster[a].status = "memorialised"
             => roster'[a].status = "memorialised"
       /\ \A n \in DOMAIN leave_records :
             leave_records[n].state = "memorialised"
             => /\ n \in DOMAIN leave_records'
                /\ leave_records'[n].state = "memorialised"]_vars

\* --------------------------------------------------------------------------
\* the actor has a leave record that is active or memorialised
Frozen(a) ==
    \E n \in DOMAIN leave_records :
        /\ leave_records[n].actor_id = a
        /\ leave_records[n].state \in {"active", "memorialised"}

\* C25: while an actor has an active or memorialised leave record their
\* trust score is the one frozen when the record was granted: no step of
\* any operation changes their trust score, their domain scores or their
\* roster trust score, update_trust on them fails, and run_skill_decay
\* leaves their skills as they are.
C25_TrustFrozenOnLeave ==
    /\ [](\A n \in DOMAIN leave_records :
             (/\ leave_records[n].state \in {"active", "memorialised"}
              /\ leave_records[n].actor_id \in DOMAIN trust_records)
             => trust_records[leave_records[n].actor_id].score
                    = leave_records[n].trust_score_at_freeze)
    /\ [][\A a \in DOMAIN trust_records :
             Frozen(a) =>
                 /\ a \in DOMAIN trust_records'
                 /\ trust_records'[a].score = trust_records[a].score
                 /\ [x \in DOMAIN trust_records'[a].domain_scores |->
                         trust_records'[a].domain_scores[x].score]
                        = [x \in DOMAIN trust_records[a].domain_scores |->
                              trust_records[a].domain_scores[x].score]
                 /\ a \in DOMAIN roster'
                 /\ roster'[a].trust_score = roster[a].trust_score
                 /\ (result'.op = "run_skill_decay" /\ a \in DOMAIN skill_profiles)
                       => skill_profiles'[a] = skill_profiles[a]
                 /\ \/ ~result'.success
                    \/ \A q \in ScoreInputs : ~update_trust(a, q, 0, 0)]_vars


\* ------------------------------------------------------ reviewer selection
\* PolicyResolver.tier_policy over the runtime policy the tests load: one
\* reviewer for R0; five reviewers of two model families, two method types,
\* three regions and three organisations for R2.
tier_policy(tier) ==
    IF tier = "R2"
    THEN [reviewers_required |-> 5, min_regions |-> 3, min_organizations |-> 3,
          min_model_families |-> 2, min_method_types |-> 2,
          constitutional_flow |-> FALSE]
    ELSE [reviewers_required |-> 1, min_regions |-> 1, min_organizations |-> 1,
          min_model_families |-> 1, min_method_types |-> 1,
          constitutional_flow |-> FALSE]

\* a candidate pool that forgets to leave out the excluded ids
available_reviewersIncludingExcluded(r, exclude_ids, min_trust) ==
    {a \in DOMAIN r : is_available(r[a]) /\ r[a].trust_score >= min_trust}

\* ActorRoster.available_reviewers
available_reviewers(r, exclude_ids, min_trust) ==
    {a \in DOMAIN r :
        /\ is_available(r[a])
        /\ a \notin exclude_ids
        /\ r[a].trust_score >= min_trust}

\* ReviewerSelector.select(mission, seed, min_trust = 0.0) over the roster r:
\* the SelectionResults it can return, one per outcome of the seeded
\* shuffles and choices. A result is [reviewers, error]; reviewers holds the
\* ids of the selected entries in selection order.
select(r, mission) ==
    LET policy == tier_policy(mission.risk_tier)
        needed == policy.reviewers_required
        exclude_ids == IF mission.worker_id # "none" THEN {mission.worker_id} ELSE {}
        candidates == available_reviewers(r, exclude_ids, 0)
        \* the sequences of k different members of S
        Picks(S, k) ==
            {t \in [1..k -> S] : \A i, j \in 1..k : i # j => t[i] # t[j]}
        Least(a, b) == IF a < b THEN a ELSE b
        \* _cover_dimension: one entry from each of up to needed_values
        \* groups whose value is not covered yet, in shuffled group order
        Cover(sel, dim, min_unique) ==
            LET covered == {r[sel[i]][dim] : i \in 1..Len(sel)}
                needed_values == min_unique - Cardinality(covered)
                fresh == {c \in candidates \ Range(sel) : r[c][dim] \notin covered}
                groups == {r[c][dim] : c \in fresh}
                k == Least(needed_values, Cardinality(groups))
            IN IF needed_values <= 0
               THEN {sel}
               ELSE {sel \o t : t \in {u \in Picks(fresh, k) :
                        \A i, j \in 1..k : i # j => r[u[i]][dim] # r[u[j]][dim]}}
        \* phase 1: the four dimensions in the order of _constrained_select
        afterFamilies == Cover(<<>>, "model_family", policy.min_model_families)
        afterMethods ==
            UNION {Cover(sel, "method_type", policy.min_method_types) :
                      sel \in afterFamilies}
        afterRegions ==
            UNION {Cover(sel, "region", policy.min_regions) : sel \in afterMethods}
        afterOrganizations ==
            UNION {Cover(sel, "organization", policy.min_organizations) :
                      sel \in afterRegions}
        \* phase 2: the remaining pool, shuffled, fills the open slots
        Fill(sel) ==
            LET remaining == candidates \ Range(sel)
                open == IF Len(sel) >= needed THEN 0 ELSE needed - Len(sel)
            IN {sel \o t : t \in Picks(remaining, Least(open, Cardinality(remaining)))}
        filled == UNION {Fill(sel) : sel \in afterOrganizations}
        \* _meets_constraints
        meets(sel) ==
            /\ Len(sel) >= needed
            /\ Cardinality({r[sel[i]].model_family : i \in 1..Len(sel)})
                  >= policy.min_model_families
            /\ Cardinality({r[sel[i]].method_type : i \in 1..Len(sel)})
                  >= policy.min_method_types
            /\ Cardinality({r[sel[i]].region : i \in 1..Len(sel)}) >= policy.min_regions
            /\ Cardinality({r[sel[i]].organization : i \in 1..Len(sel)})
                  >= policy.min_organizations
        \* phase 3: trim to the number needed and validate
        outcome(sel) ==
            IF Len(sel) >= needed /\ meets(SubSeq(sel, 1, needed))
            THEN [reviewers |-> SubSeq(sel, 1, needed), error |-> "none"]
            ELSE [reviewers |-> <<>>, error |-> "diversity"]
    IN IF policy.constitutional_flow
       THEN {[reviewers |-> <<>>, error |-> "constitutional_flow"]}
       ELSE IF Cardinality(candidates) < needed
       THEN {[reviewers |-> <<>>, error |-> "insufficient_candidates"]}
       ELSE {outcome(sel) : sel \in filled}

\* GenesisService.assign_reviewers: the selection, mission.reviewers, then
\* _transition_mission to ASSIGNED and to IN_REVIEW, each with its event and
\* its post-audit snapshot. reviewer_router.validate_assignment checks the
\* selection against the tier policy the selector has just met. `selection`
\* is the SelectionResult the seed yields, one of select(roster, mission).
assign_reviewers(mission_id, selection, writeFails1, writeFails2, failAt1, failAt2) ==
    IF mission_id \notin DOMAIN missions
    THEN Reject("assign_reviewers", "not_found")
    ELSE
        IF selection.error # "none"
        THEN Reject("assign_reviewers", selection.error)
        ELSE LET actor == MissionActor(missions[mission_id])
                 marked == [Here EXCEPT
                              !.missions[mission_id].reviewers = selection.reviewers]
                 assigned == [marked EXCEPT !.missions[mission_id].state = "assigned"]
                 in_review == [marked EXCEPT !.missions[mission_id].state = "in_review"]
                 rec1 == RecordMissionEvent(Audit, mission_id, actor,
                                            "transition:assigned", writeFails1)
                 rec2 == RecordMissionEvent(rec1.a, mission_id, actor,
                                            "transition:in_review", writeFails2)
                 p1 == PersistState(store_mem, store_file, DomSnapshot(assigned), failAt1)
                 p2 == PersistState(p1.mem, p1.disk, DomSnapshot(in_review), failAt2)
             IN IF ~LegalTransition(missions[mission_id].state, "assigned")
                THEN /\ SetDomain(marked)
                     /\ result' = Fail("assign_reviewers", "illegal_transition")
                     /\ UNCHANGED <<events, event_ids, file, event_counter, epoch,
                                    clock, store_mem, store_file,
                                    persistence_degraded, committed,
                                    previous_hash, epochs_opened>>
                ELSE IF rec1.err # "none"
                THEN Finish("assign_reviewers", rec1, marked, marked, 0)
                ELSE IF rec2.err # "none"
                THEN /\ SetAudit(rec2.a)
                     /\ SetDomain(assigned)
                     /\ store_mem' = p1.mem
                     /\ store_file' = p1.disk
                     /\ persistence_degraded' = (persistence_degraded \/ ~p1.ok)
                     /\ result' = Fail("assign_reviewers", rec2.err)
                     /\ UNCHANGED <<committed, previous_hash, epochs_opened>>
                ELSE /\ SetAudit(rec2.a)
                     /\ SetDomain(in_review)
                     /\ store_mem' = p2.mem
                     /\ store_file' = p2.disk
                     /\ persistence_degraded' =
                            (persistence_degraded \/ ~p1.ok \/ ~p2.ok)
                     /\ result' = OkAfterPersist("assign_reviewers", failAt2, EmptyMap)
                     /\ UNCHANGED <<committed, previous_hash, epochs_opened>>

\* the actors the review scenarios register: five available reviewers of
\* three regions and organisations (d5 on probation), a quarantined and a
\* decommissioned actor; d1 is of a model family of its own, or, in the
\* monoculture roster, of the family of the others
ReviewActors == {"d1", "d2", "d3", "d4", "d5", "q1", "x1"}
ReviewerEntry(a, monoculture) ==
    [AdjudicatorEntry(a) EXCEPT
        !.status = CASE a = "q1" -> "quarantined"
                     [] a = "x1" -> "decommissioned"
                     [] a = "d5" -> "probation"
                     [] OTHER -> "active",
        !.model_family = IF a = "d1" /\ ~monoculture THEN "claude" ELSE "gpt",
        !.method_type = IF a = "d2" THEN "retrieval_augmented" ELSE "reasoning_model"]

\* GenesisService.__init__ over a snapshot that holds the review actors;
\* register_actor records no event, so the log is empty
InitReview ==
    /\ \E monoculture \in BOOLEAN :
           roster = [a \in ReviewActors |-> ReviewerEntry(a, monoculture)]
    /\ trust_records = [a \in ReviewActors |->
                           [AdjudicatorTrust(a) EXCEPT !.quarantined = (a = "q1")]]
    /\ missions = EmptyMap
    /\ leave_records = EmptyMap
    /\ leave_counter = 0
    /\ listings = EmptyMap
    /\ bids = EmptyMap
    /\ skill_profiles = EmptyMap
    /\ reviewer_histories = EmptyMap
    /\ events = <<>>
    /\ event_ids = {}
    /\ file = <<>>
    /\ event_counter = 0
    /\ epoch = NoEpoch
    /\ committed = <<>>
    /\ previous_hash = GENESIS_PREVIOUS_HASH
    /\ epochs_opened = 0
    /\ persistence_degraded = FALSE
    /\ store_mem = Snapshot(roster, trust_records, missions, EmptyMap,
                            GENESIS_PREVIOUS_HASH, 0)
    /\ store_file = store_mem
    /\ clock = 0
    /\ result = InitResult

\* a mission of the worker w1 is created and submitted, the worker
\* registers, actors are quarantined and reviewers are assigned to the
\* mission, the seed choosing among the results of the selector; the audit
\* append of either transition of assign_reviewers may fail
SpecReview ==
    InitReview /\ [][
        \/ PanelOpenEpoch
        \/ \E a \in RegisterIds : register_actor(a, 0)
        \/ \E a \in {"d1", "nobody"} : quarantine_actor(a, 0)
        \/ /\ clock < MaxReviewClock
           /\ \E c \in {"documentation_update", "regulated_analysis"} :
                 create_mission("m1", c, "w1", 0, 0)
        \/ /\ clock < MaxReviewClock
           /\ submit_mission("m1", 0, 0)
        \/ /\ clock + 1 < MaxReviewClock
           /\ \E m \in MissionIds \cap DOMAIN missions :
                 \E selection \in select(roster, missions[m]),
                    wf1 \in 0..WriteRefused, wf2 \in 0..WriteRefused :
                     assign_reviewers(m, selection, wf1, wf2, 0, 0)
    ]_vars

\* ------------------------------------------------ the human final gate
\* who is named as approver or rejector: a registered human, the registered
\* machine, and an id that is not on the roster
GateActors == {"d1", "bot", "nobody"}

\* the registered actors: the five reviewers of SpecReview and a machine
GateRoster == {"d1", "d2", "d3", "d4", "d5", "bot"}

\* what a quality assessment takes from outside: the scores
\* TrustEngine.apply_update yields for the worker and for a reviewer, the
\* proficiency the skill outcome update yields, and how the appends of the
\* quality event and of the trust events end
QualityInputs ==
    [worker_score : {7}, reviewer_score : {5}, skill_level : {3},
     writeFails : 0..WriteRefused, trustWriteFails : 0..WriteRefused]

\* GenesisService.__init__ over a snapshot that holds the registered
\* actors; register_actor records no event, so the log is empty
InitGate ==
    /\ roster = [a \in GateRoster |->
                    IF a = "bot"
                    THEN [ReviewerEntry(a, FALSE) EXCEPT !.actor_kind = "machine"]
                    ELSE ReviewerEntry(a, FALSE)]
    /\ trust_records = [a \in GateRoster |->
                           IF a = "bot"
                           THEN [AdjudicatorTrust(a) EXCEPT !.actor_kind = "machine"]
                           ELSE AdjudicatorTrust(a)]
    /\ missions = EmptyMap
    /\ leave_records = EmptyMap
    /\ leave_counter = 0
    /\ listings = EmptyMap
    /\ bids = EmptyMap
    /\ skill_profiles = EmptyMap
    /\ reviewer_histories = EmptyMap
    /\ events = <<>>
    /\ event_ids = {}
    /\ file = <<>>
    /\ event_counter = 0
    /\ epoch = NoEpoch
    /\ committed = <<>>
    /\ previous_hash = GENESIS_PREVIOUS_HASH
    /\ epochs_opened = 0
    /\ persistence_degraded = FALSE
    /\ store_mem = Snapshot(roster, trust_records, missions, EmptyMap,
                            GENESIS_PREVIOUS_HASH, 0)
    /\ store_file = store_mem
    /\ clock = 0
    /\ result = InitResult

\* the scenario injects one failing append and one failing snapshot write:
\* an append has failed when the clock is ahead of the log file, a snapshot
\* write when the degraded flag is set
GateWriteFaults == IF clock = Len(file) THEN 0..WriteRefused ELSE {0}
GatePersistFaults == IF persistence_degraded THEN {0} ELSE PersistFailPoints
GateQualityInputs ==
    {q \in QualityInputs : q.writeFails \in GateWriteFaults
                              /\ q.trustWriteFails \in GateWriteFaults}

ApproveMission ==
    /\ clock < MaxGateClock
    /\ \E m \in MissionIds, wf \in GateWriteFaults, failAt \in GatePersistFaults,
          quality \in GateQualityInputs :
          approve_mission(m, wf, failAt, quality)

HumanGateApprove ==
    /\ clock + 1 < MaxGateClock
    /\ \E m \in MissionIds, a \in GateActors, wf1 \in GateWriteFaults, wf2 \in GateWriteFaults,
          failAt \in GatePersistFaults, quality \in GateQualityInputs :
          human_gate_approve(m, a, wf1, wf2, failAt, quality)

HumanGateReject ==
    /\ clock + 1 < MaxGateClock
    /\ \E m \in MissionIds, a \in GateActors, wf1 \in GateWriteFaults, wf2 \in GateWriteFaults,
          failAt \in GatePersistFaults, quality \in GateQualityInputs :
          human_gate_reject(m, a, wf1, wf2, failAt, quality)

\* a mission of the worker w1 from create_mission through the review to
\* approve_mission and the human gate: the worker registers before the
\* mission is created; the mission is of a class of tier R0 or of tier R2;
\* assign_reviewers runs on the submitted mission with a seed that yields
\* a panel of human reviewers; the assigned reviewers submit in turn, as in
\* the tests, an approving verdict or a string that is no verdict;
\* complete_review follows once the evidence is filed and every assigned
\* reviewer has submitted
SpecGate ==
    InitGate /\ [][
        \/ PanelOpenEpoch
        \/ /\ missions = EmptyMap
           /\ \E a \in RegisterIds : a \notin DOMAIN roster /\ register_actor(a, 0)
        \/ /\ clock < MaxGateClock
           /\ \E m \in MissionIds, c \in {"documentation_update", "regulated_analysis"} :
                 create_mission(m, c, "w1", 0, 0)
        \/ \E m \in MissionIds : set_mission_skill_requirements(m, <<"software:python">>, 0)
        \/ /\ clock < MaxGateClock
           /\ \E m \in MissionIds : submit_mission(m, 0, 0)
        \/ /\ clock + 1 < MaxGateClock
           /\ \E m \in MissionIds \cap DOMAIN missions :
                 /\ missions[m].state = "submitted"
                 /\ assign_reviewers(m, CHOOSE s \in select(roster, missions[m]) :
                                            "bot" \notin Range(s.reviewers), 0, 0, 0, 0)
        \/ AddEvidence
        \/ /\ clock < MaxGateClock
           /\ \E m \in MissionIds \cap DOMAIN missions :
                 /\ Len(missions[m].review_decisions) < Len(missions[m].reviewers)
                 /\ \E verdict \in {"APPROVE", "MAYBE"}, wf \in GateWriteFaults :
                       submit_review(m, missions[m].reviewers[Len(missions[m].review_decisions) + 1],
                                     verdict, wf, 0)
        \/ /\ clock < MaxGateClock
           /\ \E m \in MissionIds \cap DOMAIN missions :
                 /\ missions[m].evidence > 0
                 /\ Len(missions[m].review_decisions) = Len(missions[m].reviewers)
                 /\ \E wf \in GateWriteFaults, failAt \in GatePersistFaults :
                       complete_review(m, wf, failAt)
        \/ ApproveMission
        \/ HumanGateApprove
        \/ HumanGateReject
        \/ /\ clock < MaxGateClock
           /\ \E m \in MissionIds, quality \in GateQualityInputs : assess_quality(m, quality)
    ]_vars

\* C29: a mission whose tier policy sets human_final_gate becomes APPROVED
\* only in a human_gate_approve step by a registered human taken while the
\* mission is in HUMAN_GATE_PENDING, so never in an approve_mission step; and
\* human_gate_approve and human_gate_reject fail, changing no mission, in
\* any other mission state or when the actor is a machine.
C29_HumanGateOnly ==
    [][LET
        \* the missions whose risk tier policy sets human_final_gate
        Gated(m) ==
            m \in DOMAIN missions /\ human_final_gate(missions[m].risk_tier)
        \* this step is human_gate_approve(m, a) by a human on the roster, called
        \* while m is in HUMAN_GATE_PENDING
        ApprovedAtHumanGate(m) ==
            /\ missions[m].state = "human_gate_pending"
            /\ \E a \in GateActors :
                  /\ a \in DOMAIN roster
                  /\ roster[a].actor_kind = "human"
                  /\ \E wf1 \in 0..WriteRefused, wf2 \in 0..WriteRefused,
                        failAt \in PersistFailPoints, quality \in QualityInputs :
                        human_gate_approve(m, a, wf1, wf2, failAt, quality)
        \* the step is a gate call on m by a that must fail: m is not in
        \* HUMAN_GATE_PENDING, or a is a machine
        RefusedGateCall(m, a) ==
            /\ \/ missions[m].state # "human_gate_pending"
               \/ (a \in DOMAIN roster /\ roster[a].actor_kind = "machine")
            /\ \E wf1 \in 0..WriteRefused, wf2 \in 0..WriteRefused,
                  failAt \in PersistFailPoints, quality \in QualityInputs :
                  \/ human_gate_approve(m, a, wf1, wf2, failAt, quality)
                  \/ human_gate_reject(m, a, wf1, wf2, failAt, quality)
       IN
       \A m \in DOMAIN missions :
          /\ (/\ Gated(m)
              /\ missions[m].state # "approved"
              /\ missions'[m].state = "approved")
             => (result'.op = "human_gate_approve" /\ ApprovedAtHumanGate(m))
          /\ \A a \in GateActors :
                RefusedGateCall(m, a)
                => (~result'.success /\ missions' = missions)]_vars

\* ---------------------------------------------------------- the market
\* ListingStateMachine.apply_transition: the moves the service asks for.
\* DRAFT -> OPEN -> ACCEPTING_BIDS -> EVALUATING -> ALLOCATED -> CLOSED, and
\* CANCELLED from a listing that is not yet allocated
LegalListingTransition(from, target) ==
    \/ from = "draft" /\ target = "open"
    \/ from = "open" /\ target = "accepting_bids"
    \/ from = "accepting_bids" /\ target = "evaluating"
    \/ from = "evaluating" /\ target = "allocated"
    \/ from = "allocated" /\ target = "closed"
    \/ from \in {"draft", "open", "accepting_bids", "evaluating"} /\ target = "cancelled"

\* _record_listing_event(listing, action)
RecordListingEvent(a, listing_id, creator_id, action, writeFails) ==
    RecordEvent(a, IF action = "created" THEN "listing_created" ELSE "listing_transition",
                creator_id, <<listing_id, action>>, "mission", writeFails)

\* _record_bid_event(bid)
RecordBidEvent(a, bid_id, listing_id, worker_id, writeFails) ==
    RecordEvent(a, "bid_submitted", worker_id, <<bid_id, listing_id, worker_id>>,
                "mission", writeFails)

\* the end of withdraw_bid and cancel_listing: _safe_persist over the state
\* `good`, whose rollback restores the state the call found
PersistMarket(op, good, failAt) ==
    LET p == PersistState(store_mem, store_file, DomSnapshot(good), failAt)
    IN /\ store_mem' = p.mem
       /\ store_file' = p.disk
       /\ IF p.ok
          THEN /\ SetDomain(good)
               /\ result' = Ok(op, FALSE)
          ELSE /\ SetDomain(Here)
               /\ result' = Fail(op, Except(PersistCatches, "snapshot", "persistence"))
       /\ UNCHANGED <<events, event_ids, file, event_counter, epoch, clock,
                      committed, previous_hash, epochs_opened, persistence_degraded>>

\* GenesisService.create_listing without skill requirements
create_listing(listing_id, creator_id, writeFails, failAt) ==
    IF listing_id \in DOMAIN listings
    THEN Reject("create_listing", "exists")
    ELSE IF creator_id \notin DOMAIN roster
    THEN Reject("create_listing", "creator_not_found")
    ELSE LET listing == [state |-> "draft", creator_id |-> creator_id,
                         opened_utc |-> 0, allocated_worker_id |-> "none",
                         allocated_utc |-> 0, allocated_mission_id |-> "none"]
             rec == RecordListingEvent(Audit, listing_id, creator_id, "created",
                                       writeFails)
         IN Finish("create_listing", rec,
                   [Here EXCEPT !.listings = Put(listings, listing_id, listing),
                                !.bids = Put(bids, listing_id, <<>>)],
                   Here, failAt)

\* GenesisService._transition_listing
TransitionListing(op, listing_id, target, writeFails, failAt) ==
    IF listing_id \notin DOMAIN listings
    THEN Reject(op, "not_found")
    ELSE IF ~LegalListingTransition(listings[listing_id].state, target)
    THEN Reject(op, "illegal_transition")
    ELSE LET rec == RecordListingEvent(Audit, listing_id,
                                       listings[listing_id].creator_id,
                                       "transition:" \o target, writeFails)
         IN Finish(op, rec,
                   [Here EXCEPT !.listings[listing_id] =
                       [@ EXCEPT !.state = target,
                                 !.opened_utc = IF target = "open"
                                                THEN rec.a.clock ELSE @]],
                   Here, failAt)

\* GenesisService.open_listing
open_listing(listing_id, writeFails, failAt) ==
    TransitionListing("open_listing", listing_id, "open", writeFails, failAt)

\* GenesisService.start_accepting_bids
start_accepting_bids(listing_id, writeFails, failAt) ==
    TransitionListing("start_accepting_bids", listing_id, "accepting_bids",
                      writeFails, failAt)

\* GenesisService.submit_bid: the bid id is the caller's; the duplicate
\* check looks for a SUBMITTED bid of the same worker
submit_bid(bid_id, listing_id, worker_id, writeFails, failAt) ==
    LET op == "submit_bid"
        bs == IF listing_id \in DOMAIN bids THEN bids[listing_id] ELSE <<>>
        global_trust == IF worker_id \in DOMAIN trust_records
                        THEN trust_records[worker_id].score ELSE 0
        active_bids == {i \in 1..Len(bs) : bs[i].state = "submitted"}
        bid == [bid_id |-> bid_id, worker_id |-> worker_id, state |-> "submitted"]
        rec == RecordBidEvent(Audit, bid_id, listing_id, worker_id, writeFails)
    IN IF listing_id \notin DOMAIN listings
       THEN Reject(op, "not_found")
       ELSE IF listings[listing_id].state \notin {"open", "accepting_bids"}
       THEN Reject(op, "not_accepting_bids")
       ELSE IF worker_id \notin DOMAIN roster
       THEN Reject(op, "worker_not_found")
       ELSE IF ~is_available(roster[worker_id])
       THEN Reject(op, "worker_unavailable")
       ELSE IF global_trust < MIN_TRUST_TO_BID
       THEN Reject(op, "trust_below_minimum")
       ELSE IF \E i \in active_bids : bs[i].worker_id = worker_id
       THEN Reject(op, "duplicate_bid")
       ELSE IF Cardinality(active_bids) >= MAX_BIDS_PER_LISTING
       THEN Reject(op, "max_bids")
       ELSE Finish(op, rec,
                   [Here EXCEPT !.bids = Put(bids, listing_id, Append(bs, bid))],
                   Here, failAt)

\* GenesisService.withdraw_bid: the first bid of the listing with the id
withdraw_bid(bid_id, listing_id, failAt) ==
    LET op == "withdraw_bid"
        bs == IF listing_id \in DOMAIN bids THEN bids[listing_id] ELSE <<>>
        found == {i \in 1..Len(bs) : bs[i].bid_id = bid_id}
        first == CHOOSE i \in found : \A j \in found : i <= j
    IN IF listing_id \notin DOMAIN listings
       THEN Reject(op, "not_found")
       ELSE IF found = {}
       THEN Reject(op, "bid_not_found")
       ELSE IF bs[first].state # "submitted"
       THEN Reject(op, "not_withdrawable")
       ELSE PersistMarket(op, [Here EXCEPT !.bids[listing_id][first].state = "withdrawn"],
                          failAt)

\* GenesisService.cancel_listing: every SUBMITTED bid is withdrawn
cancel_listing(listing_id, failAt) ==
    LET op == "cancel_listing"
        bs == IF listing_id \in DOMAIN bids THEN bids[listing_id] ELSE <<>>
        withdrawn == [i \in 1..Len(bs) |->
                         IF bs[i].state = "submitted"
                         THEN [bs[i] EXCEPT !.state = "withdrawn"] ELSE bs[i]]
    IN IF listing_id \notin DOMAIN listings
       THEN Reject(op, "not_found")
       ELSE IF ~LegalListingTransition(listings[listing_id].state, "cancelled")
       THEN Reject(op, "illegal_transition")
       ELSE PersistMarket(op,
                [Here EXCEPT !.listings[listing_id].state = "cancelled",
                             !.bids = IF listing_id \in DOMAIN bids
                                      THEN [bids EXCEPT ![listing_id] = withdrawn]
                                      ELSE bids],
                failAt)

\* GenesisService.evaluate_and_allocate(listing_id) with the default
\* mission class. `winner` is the position, among the bids of the listing,
\* of the bid AllocationEngine.evaluate_and_allocate selects from the
\* submitted ones, 0 when it returns None. Every bid whose id is the
\* selected id becomes ACCEPTED; prior_bid_states, keyed by bid id, holds
\* for an id the state of the last bid that carries it. The listing is
\* closed on allocation (auto_close_on_allocation).
evaluate_and_allocate(listing_id, winner, writeFails, failAt) ==
    LET op == "evaluate_and_allocate"
        bs == IF listing_id \in DOMAIN bids THEN bids[listing_id] ELSE <<>>
        submitted_bids == {i \in 1..Len(bs) : bs[i].state = "submitted"}
        mission_id == "mission-from-" \o listing_id
    IN IF listing_id \notin DOMAIN listings
       THEN Reject(op, "not_found")
       ELSE IF listings[listing_id].state \notin {"accepting_bids", "evaluating"}
       THEN Reject(op, "wrong_state")
       ELSE IF submitted_bids = {}
       THEN Reject(op, "no_bids")
       ELSE IF winner \notin submitted_bids
       THEN Reject(op, "allocation_failed")
       ELSE LET selected == bs[winner].bid_id
                worker == bs[winner].worker_id
                decided == [i \in 1..Len(bs) |->
                               IF bs[i].bid_id = selected
                               THEN [bs[i] EXCEPT !.state = "accepted"]
                               ELSE IF bs[i].state = "submitted"
                               THEN [bs[i] EXCEPT !.state = "rejected"]
                               ELSE bs[i]]
                prior_bid_states(id) ==
                    bs[CHOOSE i \in 1..Len(bs) :
                          /\ bs[i].bid_id = id
                          /\ \A j \in 1..Len(bs) : bs[j].bid_id = id => j <= i].state
                restored == [i \in 1..Len(bs) |->
                                [bs[i] EXCEPT !.state = prior_bid_states(bs[i].bid_id)]]
                rolled_back == [Here EXCEPT !.bids[listing_id] = restored]
                rec == RecordEvent(Audit, "worker_allocated",
                                   listings[listing_id].creator_id,
                                   <<listing_id, selected, worker, mission_id>>,
                                   "mission", writeFails)
                good == [Here EXCEPT
                           !.listings[listing_id] =
                               [@ EXCEPT !.state = "closed",
                                         !.allocated_worker_id = worker,
                                         !.allocated_utc = rec.a.clock,
                                         !.allocated_mission_id = mission_id],
                           !.bids[listing_id] = decided,
                           !.missions = Put(missions, mission_id,
                                            NewMission("documentation_update", worker))]
            IN IF mission_id \in DOMAIN missions
               THEN /\ SetDomain(rolled_back)
                    /\ result' = Fail(op, "mission_exists")
                    /\ UNCHANGED <<events, event_ids, file, event_counter, epoch,
                                   clock, committed, previous_hash, epochs_opened,
                                   persistence_degraded, store_mem, store_file>>
               ELSE Finish(op, rec, good, rolled_back, failAt)

\* the bids a listing takes in the market scenario
MaxBids == 3

\* GenesisService.__init__ over a snapshot that holds the registered
\* actors; register_actor records no event, so the log is empty
InitMarket ==
    /\ roster = [a \in Actors |-> IF a \in Adjudicators
                                  THEN AdjudicatorEntry(a) ELSE NewRosterEntry]
    /\ trust_records = [a \in Actors |-> IF a \in Adjudicators
                                         THEN AdjudicatorTrust(a) ELSE NewTrustRecord]
    /\ missions = EmptyMap
    /\ leave_records = EmptyMap
    /\ leave_counter = 0
    /\ listings = EmptyMap
    /\ bids = EmptyMap
    /\ skill_profiles = EmptyMap
    /\ reviewer_histories = EmptyMap
    /\ events = <<>>
    /\ event_ids = {}
    /\ file = <<>>
    /\ event_counter = 0
    /\ epoch = NoEpoch
    /\ committed = <<>>
    /\ previous_hash = GENESIS_PREVIOUS_HASH
    /\ epochs_opened = 0
    /\ persistence_degraded = FALSE
    /\ store_mem = Snapshot(roster, trust_records, missions, EmptyMap,
                            GENESIS_PREVIOUS_HASH, 0)
    /\ store_file = store_mem
    /\ clock = 0
    /\ result = InitResult

\* a listing from create_listing to its allocation or cancellation, with
\* bids submitted under ids of the bidders' choosing and withdrawn, and
\* with a mission created, before the listing, under the id the allocation
\* would use
SpecMarket ==
    InitMarket /\ [][
        \/ PanelOpenEpoch
        \/ /\ clock < MaxMarketClock
           /\ \E creator_id \in {"d1", "nobody"} : create_listing("L1", creator_id, 0, 0)
        \/ /\ clock < MaxMarketClock
           /\ open_listing("L1", 0, 0)
        \/ /\ clock < MaxMarketClock
           /\ start_accepting_bids("L1", 0, 0)
        \/ /\ clock < MaxMarketClock
           /\ "L1" \in DOMAIN bids => Len(bids["L1"]) < MaxBids
           /\ \E bid_id \in {"b1", "b2"}, worker_id \in {"d2", "d3", "nobody"} :
                 submit_bid(bid_id, "L1", worker_id, 0, 0)
        \/ \E bid_id \in {"b1", "b2"}, failAt \in PersistFailPoints :
              withdraw_bid(bid_id, "L1", failAt)
        \/ \E failAt \in PersistFailPoints : cancel_listing("L1", failAt)
        \/ /\ clock < MaxMarketClock
           /\ listings = EmptyMap
           /\ create_mission("mission-from-L1", "documentation_update", "none", 0, 0)
        \/ /\ clock < MaxMarketClock
           /\ \E l \in {"L1", "L2"}, winner \in 0..MaxBids,
                 wf \in 0..WriteRefused, failAt \in PersistFailPoints :
                 evaluate_and_allocate(l, winner, wf, failAt)
    ]_vars

\* ------------------------------------- mutators that persist before commit
\* register_actor, quarantine_actor, decay_inactive_actors, run_skill_decay
\* and update_actor_skills with the snapshot write failing at its first or at
\* its second save_* call, or inside the first after the file was emptied;
\* for the skill operations at the save of the profiles, for run_skill_decay
\* also at the one after
SpecPersist ==
    InitFreeze /\ [][
        \/ \E a \in {"w2", "d1"}, failAt \in 0..MaxFailPoint \cup {NumSections + 1} :
              register_actor(a, failAt)
        \/ \E a \in {"w1"}, failAt \in 0..MaxFailPoint :
              quarantine_actor(a, failAt)
        \/ \E stale \in {{"d1"}}, failAt \in 0..MaxFailPoint :
              decay_inactive_actors(stale, failAt)
        \/ \E actor_id \in {"all", "w2"}, stale \in {{"w1"}},
              failAt \in {0, SkillProfilesSave, SkillProfilesSave + 1} :
              run_skill_decay(actor_id, stale, failAt)
        \/ \E a \in {"w1", "nobody"}, failAt \in {0, SkillProfilesSave} :
              update_actor_skills(a, 2, failAt)
    ]_vars

\* ------------------------------------------------ a panel filled to its cap

\* GenesisService.__init__ over a snapshot with more eligible adjudicators
\* than max_adjudicators (d6 on probation), a machine and a quarantined
\* human with the same trust, and an applicant who would qualify as an
\* adjudicator of anyone else's request
InitCap ==
    /\ roster = [a \in {"d1", "d2", "d3", "d4", "d5", "d6", "bot", "q1", "w1"} |->
                    CASE a = "bot" -> [AdjudicatorEntry(a) EXCEPT !.actor_kind = "machine"]
                      [] a = "q1" -> [AdjudicatorEntry(a) EXCEPT !.status = "quarantined"]
                      [] a = "d6" -> [AdjudicatorEntry(a) EXCEPT !.status = "probation"]
                      [] OTHER -> AdjudicatorEntry(a)]
    /\ trust_records = [a \in {"d1", "d2", "d3", "d4", "d5", "d6", "bot", "q1", "w1"} |->
                    CASE a = "bot" -> [AdjudicatorTrust(a) EXCEPT !.actor_kind = "machine"]
                      [] a = "q1" -> [AdjudicatorTrust(a) EXCEPT !.quarantined = TRUE]
                      [] OTHER -> AdjudicatorTrust(a)]
    /\ missions = EmptyMap
    /\ leave_records = EmptyMap
    /\ leave_counter = 0
    /\ listings = EmptyMap
    /\ bids = EmptyMap
    /\ skill_profiles = EmptyMap
    /\ reviewer_histories = EmptyMap
    /\ events = <<>>
    /\ event_ids = {}
    /\ file = <<>>
    /\ event_counter = 0
    /\ epoch = NoEpoch
    /\ committed = <<>>
    /\ previous_hash = GENESIS_PREVIOUS_HASH
    /\ epochs_opened = 0
    /\ persistence_degraded = FALSE
    /\ store_mem = Snapshot(roster, trust_records, EmptyMap, EmptyMap,
                            GENESIS_PREVIOUS_HASH, 0)
    /\ store_file = store_mem
    /\ clock = 0
    /\ result = InitResult

\* one leave request before more adjudicators than the cap admits; anyone
\* on the roster, and a stranger, may try to vote
SpecCap ==
    InitCap /\ [][
        \/ PanelOpenEpoch
        \/ FileLeave(MaxCapClock, MaxLeaves, LeaveCategories, {0})
        \/ AdjudicateFiled(MaxCapClock, MaxLeaves, {"d1", "d2", "d3", "bot", "w1"},
                           {"approve"}, {0})
        \/ AdjudicateFiled(MaxCapClock, MaxLeaves,
                           {"d1", "d2", "d3", "d4", "d5", "d6", "q1", "nobody"},
                           {"abstain"}, {0})
    ]_vars

\* C31: no leave record ever holds more than max_adjudicators adjudications,
\* and once a record holds that many every adjudicate_leave call on it is
\* rejected and changes no record, whoever votes and whatever the verdict.
C31_AdjudicatorCap ==
    [][/\ \A n \in DOMAIN leave_records' :
              Len(leave_records'[n].adjudications) <= MAX_ADJUDICATORS
       /\ \A n \in DOMAIN leave_records :
              \A a \in DOMAIN roster \cup {"nobody"}, v \in Verdicts :
                  (/\ Len(leave_records[n].adjudications) >= MAX_ADJUDICATORS
                   /\ adjudicate_leave(n, a, v, 0, 0, 0))
                  => (~result'.success /\ leave_records' = leave_records)]_vars

\* five abstentions filled the panel and a sixth eligible adjudicator was
\* turned away
C31_Witness ==
    /\ result.op = "adjudicate_leave"
    /\ result.error = "cap_reached"
    /\ \E n \in DOMAIN leave_records :
          /\ Len(leave_records[n].adjudications) = MAX_ADJUDICATORS
          /\ leave_records[n].state = "pending"

\* C32: every adjudication stored on a leave record was cast by an actor who,
\* when the vote was taken, was on the roster, human, ACTIVE or on PROBATION,
\* and not the actor the record is about; stored adjudications are never
\* rewritten afterwards.
C32_AdjudicatorsEligible ==
    [][\A n \in DOMAIN leave_records' :
          LET before == IF n \in DOMAIN leave_records
                        THEN leave_records[n].adjudications ELSE <<>>
              after == leave_records'[n].adjudications
          IN \A i \in 1..Len(after) :
                IF i <= Len(before)
                THEN after[i] = before[i]
                ELSE LET a == after[i].adjudicator_id
                     IN /\ a \in DOMAIN roster
                        /\ roster[a].actor_kind = "human"
                        /\ roster[a].status \in {"active", "probation"}
                        /\ a # leave_records'[n].actor_id]_vars

\* an adjudicator on probation and an active one voted on the request, and
\* the vote of the applicant or of the machine was refused
C32_Witness ==
    /\ result.op = "adjudicate_leave"
    /\ result.error = "ineligible"
    /\ \E n \in DOMAIN leave_records :
          /\ HasVoted(leave_records[n], "d6")
          /\ HasVoted(leave_records[n], "d1")
          /\ ~HasVoted(leave_records[n], leave_records[n].actor_id)

\* C40: while an epoch is open a PENDING leave record still accepts a vote:
\* its panel is not full and some eligible adjudicator has yet to vote, so
\* the record can still be taken to a decision.
C40_PendingDecidable ==
    \A n \in DOMAIN leave_records :
        (epoch # NoEpoch /\ leave_records[n].state = "pending")
        => /\ Len(leave_records[n].adjudications) < MAX_ADJUDICATORS
           /\ \E a \in DOMAIN roster \cap DOMAIN trust_records :
                 /\ ~HasVoted(leave_records[n], a)
                 /\ check_adjudicator_eligibility(a, roster[a], trust_records[a],
                        leave_records[n].category, leave_records[n].actor_id)

\* ------------------------------------- roster status around leave records

\* GenesisService.__init__ over a snapshot in which the applicant is on
\* probation
InitProbation ==
    /\ roster = [a \in Actors |->
                    IF a \in Adjudicators THEN AdjudicatorEntry(a)
                    ELSE [NewRosterEntry EXCEPT !.status = "probation"]]
    /\ trust_records = [a \in Actors |-> IF a \in Adjudicators
                                         THEN AdjudicatorTrust(a) ELSE NewTrustRecord]
    /\ missions = EmptyMap
    /\ leave_records = EmptyMap
    /\ leave_counter = 0
    /\ listings = EmptyMap
    /\ bids = EmptyMap
    /\ skill_profiles = EmptyMap
    /\ reviewer_histories = EmptyMap
    /\ events = <<>>
    /\ event_ids = {}
    /\ file = <<>>
    /\ event_counter = 0
    /\ epoch = NoEpoch
    /\ committed = <<>>
    /\ previous_hash = GENESIS_PREVIOUS_HASH
    /\ epochs_opened = 0
    /\ persistence_degraded = FALSE
    /\ store_mem = Snapshot(roster, trust_records, EmptyMap, EmptyMap,
                            GENESIS_PREVIOUS_HASH, 0)
    /\ store_file = store_mem
    /\ clock = 0
    /\ result = InitResult

\* leave requests and a petition for an applicant on probation, with
\* explicit returns, expiry sweeps, quarantine and trust updates in between
SpecStatus ==
    InitProbation /\ [][
        \/ PanelOpenEpoch
        \/ FileLeave(MaxStatusClock, MaxRecords, {"pregnancy"}, {0})
        \/ FilePetition(MaxStatusClock, MaxRecords, {"d1"}, {0})
        \/ AdjudicateFiled(MaxStatusClock, MaxRecords, Adjudicators,
                           {"approve"}, {0})
        \/ ReturnFiled(MaxStatusClock, MaxRecords, {0})
        \/ CheckLeaveExpiries(MaxStatusClock, PersistFailPoints)
        \/ \E a \in Applicants : quarantine_actor(a, 0)
        \/ FreezeUpdateTrust
    ]_vars

\* C33: a leave that is activated records the roster status its actor held
\* in the state before the activation and keeps it while active; when the
\* leave is returned, by return_from_leave or by the expiry sweep, the
\* actor's roster status becomes that status again (of the record returned
\* last, when a sweep returns several of one actor), so a PROBATION actor
\* is PROBATION after the return and never ACTIVE.
C33_ReturnRestoresStatus ==
    [][\A n \in DOMAIN leave_records :
          LET before == leave_records[n]
              after == leave_records'[n]
              actor == before.actor_id
              \* the records of the same actor this step returns
              Returned == {k \in DOMAIN leave_records :
                              /\ leave_records[k].actor_id = actor
                              /\ leave_records[k].state = "active"
                              /\ leave_records'[k].state = "returned"}
          IN /\ (before.state = "pending" /\ after.state = "active")
                => (/\ after.pre_leave_status = roster[actor].status
                    /\ roster'[actor].status = "on_leave")
             /\ (before.state = "active" /\ after.state \in {"active", "returned"})
                => after.pre_leave_status = before.pre_leave_status
             /\ (n \in Returned /\ \A k \in Returned : k <= n)
                => (/\ result'.op \in {"return_from_leave", "check_leave_expiries"}
                    /\ roster'[actor].status = before.pre_leave_status)]_vars

\* the expiry sweep returned the leave of an applicant who was on probation
\* when it was activated, and the applicant is on probation again
C33_Witness ==
    /\ result.op = "check_leave_expiries"
    /\ \E n \in DOMAIN leave_records :
          /\ leave_records[n].state = "returned"
          /\ leave_records[n].pre_leave_status = "probation"
          /\ roster[leave_records[n].actor_id].status = "probation"

\* C37: an actor's roster status is ON_LEAVE exactly while one of the
\* actor's leave records is ACTIVE.
C37_OnLeaveIffActiveRecord ==
    \A a \in DOMAIN roster :
        roster[a].status = "on_leave"
        <=> \E n \in DOMAIN leave_records :
               /\ leave_records[n].actor_id = a
               /\ leave_records[n].state = "active"

\* C36: while an epoch is open the sum of epoch_event_counts() is the number
\* of records the EventLog file received since the epoch was opened: a step
\* inside an open epoch adds as many hashes to the ledger as lines to the
\* file, a step that opens an epoch starts from empty buckets, and a step
\* outside an open epoch writes neither a line nor a hash.
C36_LedgerCountsAppends ==
    [][LET counted(ep) == EpochEventCounts(ep).mission + EpochEventCounts(ep).trust
       IN IF EpochIsOpen(epoch) /\ EpochIsOpen(epoch')
          THEN /\ counted(epoch') - counted(epoch) = Len(file') - Len(file)
               /\ counted(epoch') >= counted(epoch)
          ELSE /\ file' = file
               /\ EpochIsOpen(epoch') => counted(epoch') = 0
               /\ ~EpochIsOpen(epoch') => counted(epoch') <= counted(epoch)]_vars

\* a second epoch is open; the file holds records of the first epoch and of
\* this one, and an append of this epoch failed
C36_Witness ==
    /\ EpochIsOpen(epoch)
    /\ epochs_opened = 2
    /\ Len(epoch.mission) + Len(epoch.trust) >= 1
    /\ Len(file) > Len(epoch.mission) + Len(epoch.trust)
    /\ result.error = "event_log"

\* C34: whatever the seed, ReviewerSelector.select returns for a mission
\* neither the mission's worker nor a quarantined or decommissioned actor,
\* only actors on the roster; and when fewer other available actors exist
\* than the tier requires it returns an error and no reviewer.
C34_SelectionExcludes ==
    \A m \in DOMAIN missions :
        LET worker == missions[m].worker_id
            others == {a \in DOMAIN roster :
                          /\ a # worker
                          /\ roster[a].status \notin {"quarantined", "decommissioned"}}
            needed == tier_policy(missions[m].risk_tier).reviewers_required
        IN \A selection \in select(roster, missions[m]) :
              /\ \A i \in 1..Len(selection.reviewers) :
                    /\ selection.reviewers[i] # worker
                    /\ selection.reviewers[i] \in DOMAIN roster
                    /\ roster[selection.reviewers[i]].status
                          \notin {"quarantined", "decommissioned"}
              /\ selection.error = "none" => Len(selection.reviewers) = needed
              /\ Cardinality(others) < needed
                    => (selection.error # "none" /\ selection.reviewers = <<>>)

\* the worker is registered and available, and five reviewers were assigned
\* to the worker's mission from a roster that also holds a quarantined and
\* a decommissioned actor
C34_Witness ==
    /\ result.op = "assign_reviewers"
    /\ result.success
    /\ "w1" \in DOMAIN roster
    /\ is_available(roster["w1"])
    /\ \E m \in DOMAIN missions :
          /\ missions[m].worker_id = "w1"
          /\ Len(missions[m].reviewers) = 5
          /\ "w1" \notin Range(missions[m].reviewers)

\* C35: assign_reviewers, human_gate_approve, human_gate_reject and
\* adjudicate_leave are all-or-nothing: a call that returns failure leaves
\* the log file, the epoch ledger, the missions and the leave records as
\* they were; a call that returns success has written all of its events
\* (two, or one for a vote that leaves the record pending) and applied its
\* change.
C35_MultiEventAtomic ==
    [][result'.op \in {"assign_reviewers", "human_gate_approve",
                       "human_gate_reject", "adjudicate_leave"}
       => IF ~result'.success
          THEN /\ file' = file
               /\ epoch' = epoch
               /\ missions' = missions
               /\ leave_records' = leave_records
          ELSE LET written == Len(file') - Len(file)
                   decided == \E n \in DOMAIN leave_records :
                                  leave_records'[n].state # leave_records[n].state
               IN /\ written = IF result'.op = "adjudicate_leave" /\ ~decided
                                THEN 1 ELSE 2
                  /\ Len(epoch'.mission) - Len(epoch.mission) = written
                  /\ result'.op = "assign_reviewers"
                        => \E m \in DOMAIN missions :
                              /\ missions[m].state = "submitted"
                              /\ missions'[m].state = "in_review"
                              /\ missions'[m].reviewers # <<>>]_vars

\* C38: evaluate_and_allocate is atomic. A call that returns failure leaves
\* the listings (state and allocation fields), every bid, the missions, the
\* log file and the epoch ledger as they were. A call that returns success
\* has, for its listing, exactly one ACCEPTED bid, turned every other bid
\* that was SUBMITTED into REJECTED and left the remaining bids alone,
\* created the mission "mission-from-<listing>" for the accepted bid's
\* worker, recorded it on the listing, and written exactly one
\* worker_allocated event with its ledger hash.
C38_AllocationAtomic ==
    [][result'.op = "evaluate_and_allocate"
       => IF ~result'.success
          THEN /\ listings' = listings
               /\ bids' = bids
               /\ missions' = missions
               /\ file' = file
               /\ epoch' = epoch
          ELSE \E l \in DOMAIN listings :
                 LET before == bids[l]
                     after == bids'[l]
                     mission_id == "mission-from-" \o l
                 IN /\ Len(after) = Len(before)
                    /\ Cardinality({i \in 1..Len(after) :
                                      after[i].state = "accepted"}) = 1
                    /\ \A i \in 1..Len(before) :
                          /\ after[i].bid_id = before[i].bid_id
                          /\ after[i].worker_id = before[i].worker_id
                          /\ IF before[i].state = "submitted"
                             THEN after[i].state \in {"accepted", "rejected"}
                             ELSE after[i].state = before[i].state
                          /\ after[i].state = "accepted"
                                => /\ listings'[l].allocated_worker_id = before[i].worker_id
                                   /\ missions'[mission_id].worker_id = before[i].worker_id
                    /\ mission_id \notin DOMAIN missions
                    /\ DOMAIN missions' = DOMAIN missions \cup {mission_id}
                    /\ \A m \in DOMAIN missions : missions'[m] = missions[m]
                    /\ listings'[l].allocated_mission_id = mission_id
                    /\ \A k \in DOMAIN listings \ {l} :
                          listings'[k] = listings[k] /\ bids'[k] = bids[k]
                    /\ Len(file') = Len(file) + 1
                    /\ SubSeq(file', 1, Len(file)) = file
                    /\ file'[Len(file')].event_kind = "worker_allocated"
                    /\ Len(epoch'.mission) = Len(epoch.mission) + 1]_vars

\* C39: when the snapshot write of register_actor, quarantine_actor,
\* decay_inactive_actors or run_skill_decay fails, the call fails, the
\* roster, the trust records and the skill profiles are what they were
\* before the call, and no section of the
\* snapshot file holds the call's change: each section of the file is what
\* it was, or what the restored in-memory state holds.
C39_FailedPersistLeavesNoTrace ==
    [][(/\ result'.op \in {"register_actor", "quarantine_actor",
                           "decay_inactive_actors", "run_skill_decay"}
        /\ ~result'.success
        /\ result'.error = "persistence")
       => /\ roster' = roster
          /\ trust_records' = trust_records
          /\ skill_profiles' = skill_profiles
          /\ \A s \in DOMAIN store_file :
                \/ store_file'[s] = store_file[s]
                \/ store_file'[s] = CurrentSnapshot(roster, trust_records,
                                                    missions, leave_records)[s]]_vars

====
